---- MODULE Spec2Model ----
(***************************************************************************)
(* Model of the Aegis proof store (backend/core/supabase_repo.py) and of   *)
(* the request handlers of backend/main.py that drive it.                  *)
(*                                                                         *)
(* One process.  The repository runs either in local-ledger mode (no       *)
(* remote client) or in remote mode; in remote mode some optional tables   *)
(* and columns of the remote schema may be missing, and a remote call      *)
(* that touches a missing one fails with a schema-incompatibility error.   *)
(* Timestamps are integers (one unit = one hour); an absent timestamp is   *)
(* NoTime and an absent share token is NoToken.  Records keep the fields   *)
(* the operations below decide on; the fields that are only written        *)
(* (shared_at, last_external_check_at, the rows' created_at, file names,   *)
(* sizes, vault metadata) are left out.                                    *)
(***************************************************************************)
EXTENDS Integers, Sequences, FiniteSets, TLC

----------------------------------------------------------------------------
(* Bounds of the model *)

MaxProofs == 2
MaxTime == 1
MaxChecks == 2
\* settings.auto_delete_after_recheck_hours, scaled down (default 24)
AutoDeleteAfterHours == 1
\* proofs uploaded and shared verifications run in the schema-fallback
\* specification
FallbackProofs == 1
FallbackChecks == 1

----------------------------------------------------------------------------
(* Value domains *)

Anonymous == "anonymous@aegis.local"
Guest == "guest@aegis.share"
Owners == {Anonymous, "alice@aegis.io"}
\* identities that can authenticate (user id and email are one identity here)
Users == {"alice@aegis.io"}
\* absent value of an optional profile field, and the values an update carries
Null == "null"
HandleUpdates == {Null, "neo"}
Tokens == {"tokA", "tokB"}
NoToken == ""
NoTime == -1
Contents == {"a", "b"}
UploadContents == {"a"}
Ids == 1..MaxProofs

\* logical features of the remote schema that may be missing
Features == {"profiles", "notifications", "share", "checks", "autodelete"}

\* the remote schemas a process is started against: complete, without the
\* share columns, without the auto-delete columns, without any optional part
SchemaVariants == {{}, {"share"}, {"autodelete"}, Features}

\* keys passed to _warn_schema_fallback, by feature
WarnKeysOf(f) ==
    CASE f = "profiles" -> {"user_profiles", "user_profiles_update"}
      [] f = "notifications" -> {"user_notifications_insert", "user_notifications_list",
                                 "user_notifications_mark_read"}
      [] f = "share" -> {"share_columns_lookup", "share_columns_update"}
      [] f = "checks" -> {"verification_checks"}
      [] f = "autodelete" -> {"integrity_proofs_share_fields", "integrity_proofs_auto_delete"}

WarnKeys == UNION {WarnKeysOf(f) : f \in Features}

----------------------------------------------------------------------------
(* State *)

VARIABLES
    enabled,            \* SupabaseRepository.enabled: a remote client is configured
    missing,            \* features absent from the remote schema (environment)
    remote,             \* rows of the remote integrity_proofs table
    ledgerA, ledgerB,   \* the two local ledger files, as JSON arrays
    blobs,              \* storage paths present in the remote bucket (by proof id)
    remoteChecks,       \* rows of the remote verification_checks table
    localChecks,        \* _local_verification_checks
    remoteNotifs,       \* rows of the remote user_notifications table
    localNotifs,        \* _local_notifications
    remoteProfiles,     \* rows of the remote user_profiles table
    localProfiles,      \* _local_profiles, keyed by email
    memoryShareLinks,   \* _memory_share_links: pairs <<token, verification_id>>
    warningCache,       \* _schema_warning_cache
    warnings,           \* number of logger.warning calls made per warning key
    now,                \* the clock
    nextId,             \* next fresh verification_id
    nonceLog,           \* <<key, nonce>> of every VaultCipher.encrypt call so far
    connections,        \* ConnectionManager._connections
    gone,               \* websockets whose disconnect has completed
    bcast,              \* the broadcast holding ConnectionManager._lock, if any
    worker,             \* the list endpoint's worker thread inside cleanup_expired_proofs
    engine,             \* the fields of the process's PQCEngine
    lastOp              \* the last operation, its result and what it observed

vars == <<enabled, missing, remote, ledgerA, ledgerB, blobs, remoteChecks, localChecks,
          remoteNotifs, localNotifs, remoteProfiles, localProfiles, memoryShareLinks,
          warningCache, warnings, now, nextId, nonceLog, connections, gone, bcast,
          worker, engine, lastOp>>

proofVars == <<remote, ledgerA, ledgerB, blobs>>
checkVars == <<remoteChecks, localChecks>>
notifVars == <<remoteNotifs, localNotifs>>
profileVars == <<remoteProfiles, localProfiles>>
warnVars == <<warningCache, warnings>>
envVars == <<enabled, missing>>
serviceVars == <<nonceLog, connections, gone, bcast, worker, engine>>

----------------------------------------------------------------------------
(* Helpers *)

Min(a, b) == IF a <= b THEN a ELSE b

RECURSIVE SeqToSet(_)
SeqToSet(s) == IF s = <<>> THEN {} ELSE {Head(s)} \cup SeqToSet(Tail(s))

RECURSIVE SelectSeqBy(_, _)
\* the subsequence of s whose elements are in the set keep
SelectSeqBy(s, keep) ==
    IF s = <<>> THEN <<>>
    ELSE IF Head(s) \in keep THEN <<Head(s)>> \o SelectSeqBy(Tail(s), keep)
    ELSE SelectSeqBy(Tail(s), keep)

\* lastOp: op = operation name, outcome = "ok" | "none" (nothing found or
\* not authorized), ret = its integer result (the count cleanup returns),
\* all = for cleanup, whether the records expired before the call (pre) were
\* no more than its limit, warn = "none" | "emitted" | "suppressed" (a
\* schema warning was logged / was swallowed by the warning cache), rep =
\* for cleanup, whether it directly follows a cleanup that removed records
\* and had no more expired records than its limit
Op(name, outcome, ret, limit, pre, warn) ==
    [op |-> name, outcome |-> outcome, ret |-> ret, all |-> (pre <= limit), warn |-> warn,
     rep |-> FALSE]

\* SupabaseRepository._is_schema_compat_error, on the error a remote call on
\* feature f raises: the call fails with a schema error iff f is missing
SchemaError(f) == enabled /\ f \in missing

\* hasher.generate_hash, abstractly: an injective digest of the content
Digest(content) == <<"sha3_512", content>>

\* PQCEngine.sign_hash and verify_hash_with_public_key, abstractly
Sign(hash) == <<"sig", hash>>

\* PQCEngine.export_public_key_b64: the key of the running engine
PublicKey == "pk"
VerifyHashWithPublicKey(signature, hash) == signature = Sign(hash)

\* main.verify_shared_upload: status of a shared re-check
SharedStatus(signature_valid, file_hash_match) ==
    IF signature_valid /\ file_hash_match THEN "VERIFIED" ELSE "TAMPERED"

\* faulty variant: a file that does not match is not looked at
OwnerStatus_IgnoresFile(signature_valid, has_file, file_hash_match) ==
    IF ~signature_valid THEN "TAMPERED" ELSE "VERIFIED"

\* main.verify_proof: status of the owner's re-check; file_hash_match is
\* looked at only when a file came with the request
OwnerStatus(signature_valid, has_file, file_hash_match) ==
    IF ~signature_valid \/ (has_file /\ ~file_hash_match) THEN "TAMPERED" ELSE "VERIFIED"

----------------------------------------------------------------------------
(* Reads of the proof store *)

\* the rows of the proofs table that a query of the active backend sees
StoredProofs == IF enabled THEN remote ELSE SeqToSet(ledgerA)

\* SupabaseRepository._read_local_proofs: the reader uses ledger A only
ReadLocalProofs == ledgerA

\* the first element of a ledger that satisfies a test, as a set of at most one
FirstMatch(ledger, matching) ==
    LET hits == {i \in 1..Len(ledger) : ledger[i] \in matching}
    IN  IF hits = {} THEN {}
        ELSE {ledger[CHOOSE i \in hits : \A j \in hits : i <= j]}

\* SupabaseRepository.get_proof: the record, as a set of at most one
GetProof(verification_id) ==
    IF enabled
    THEN {p \in remote : p.verification_id = verification_id}
    ELSE FirstMatch(ReadLocalProofs,
                    {p \in SeqToSet(ReadLocalProofs) : p.verification_id = verification_id})

\* faulty variant: the lookup matches the token alone, not share_enabled
GetProofByShareToken_IgnoresEnabled(share_token) ==
    IF enabled
    THEN {p \in remote : p.share_token = share_token}
    ELSE FirstMatch(ReadLocalProofs,
                    {p \in SeqToSet(ReadLocalProofs) : p.share_token = share_token})

\* SupabaseRepository.get_proof_by_share_token, its result only (the warning
\* it may log is part of the actions that call it): the rows the query
\* matches, of which .limit(1) and data[0] take one
GetProofByShareToken(share_token) ==
    LET inLedger == FirstMatch(ReadLocalProofs,
                        {p \in SeqToSet(ReadLocalProofs) :
                            p.share_token = share_token /\ p.share_enabled})
    IN  IF enabled /\ ~SchemaError("share")
        THEN {p \in remote : p.share_token = share_token /\ p.share_enabled}
        ELSE IF enabled
        THEN LET linked == UNION {GetProof(l[2]) : l \in {m \in memoryShareLinks :
                                                               m[1] = share_token}}
             IN  IF linked # {}
                 THEN {[p EXCEPT !.share_token = share_token, !.share_enabled = TRUE] :
                          p \in linked}
                 ELSE inLedger
        ELSE inLedger

\* records of the active store whose auto_delete_at is set and has passed
Expired(proofs) == {p \in proofs : p.auto_delete_at # NoTime /\ p.auto_delete_at <= now}

----------------------------------------------------------------------------
(* SupabaseRepository._warn_schema_fallback on the pair <<cache, log>> *)

\* faulty variant: the warning cache is not consulted
WarnSchemaFallback_NoCache(w, key) ==
    <<w[1] \cup {key}, [w[2] EXCEPT ![key] = @ + 1]>>

WarnSchemaFallback(w, key) ==
    IF key \in w[1] THEN w
    ELSE <<w[1] \cup {key}, [w[2] EXCEPT ![key] = @ + 1]>>

\* warn for key when cond holds, else nothing
WarnIf(cond, w, key) == IF cond THEN WarnSchemaFallback(w, key) ELSE w

\* the "warn" field of lastOp for an operation that took the warning state
\* from w0 to w1 while falling back on the keys in hit
WarnOutcome(w0, w1, hit) ==
    IF hit \cap w0[1] # {} THEN "suppressed"
    ELSE IF w1[2] # w0[2] THEN "emitted"
    ELSE "none"

----------------------------------------------------------------------------
(* Initial state: SupabaseRepository.__init__ *)

\* no cleanup_expired_proofs call is under way in a worker thread
Resting == [pc |-> "idle", before |-> <<>>, kept |-> <<>>]

\* no broadcast is running and the lock is free
Idle == [active |-> FALSE, index |-> 0, dead |-> <<>>, sent |-> <<>>]

\* the stores, caches and clock of a fresh process
InitData ==
    /\ remote = {}
    /\ ledgerA = <<>>
    /\ ledgerB = <<>>
    /\ blobs = {}
    /\ remoteChecks = <<>>
    /\ localChecks = <<>>
    /\ remoteNotifs = <<>>
    /\ localNotifs = <<>>
    /\ remoteProfiles = {}
    /\ localProfiles = {}
    /\ memoryShareLinks = {}
    /\ warningCache = {}
    /\ warnings = [k \in WarnKeys |-> 0]
    /\ now = 0
    /\ nextId = 1
    /\ nonceLog = <<>>
    /\ connections = <<>>
    /\ gone = {}
    /\ bcast = Idle
    /\ worker = Resting
    /\ lastOp = Op("init", "ok", 0, 0, 0, "none")

\* a key that was not generated (None)
NoKey == "none"

\* faulty variant: the fallback is flagged but its keys are not generated
Setup_FlagOnly(oqs_available, algorithm_enabled, key) ==
    [fallback_active |-> ~(oqs_available /\ algorithm_enabled),
     backend |-> IF oqs_available /\ algorithm_enabled THEN "liboqs" ELSE "ed25519-fallback",
     private_key_oqs |-> IF oqs_available /\ algorithm_enabled THEN key ELSE NoKey,
     public_key_oqs |-> IF oqs_available /\ algorithm_enabled THEN key ELSE NoKey,
     private_key_fallback |-> NoKey,
     public_key_fallback |-> NoKey]

\* PQCEngine.__init__ and _setup: liboqs with the algorithm enabled gives the
\* primary key pair, anything else the Ed25519 pair
Setup(oqs_available, algorithm_enabled, key) ==
    IF oqs_available /\ algorithm_enabled
    THEN [fallback_active |-> FALSE, backend |-> "liboqs",
          private_key_oqs |-> key, public_key_oqs |-> key,
          private_key_fallback |-> NoKey, public_key_fallback |-> NoKey]
    ELSE [fallback_active |-> TRUE, backend |-> "ed25519-fallback",
          private_key_oqs |-> NoKey, public_key_oqs |-> NoKey,
          private_key_fallback |-> key, public_key_fallback |-> key]

\* the process with its engine on the Ed25519 pair "k1"
InitStore == InitData /\ engine = Setup(FALSE, FALSE, "k1")

Init ==
    /\ enabled \in BOOLEAN
    /\ missing \in SchemaVariants
    /\ (~enabled => missing = {})
    /\ InitStore

----------------------------------------------------------------------------
(* Environment *)

\* the clock advances
Tick ==
    /\ now < MaxTime
    /\ now' = now + 1
    /\ lastOp' = Op("tick", "ok", 0, 0, 0, "none")
    /\ UNCHANGED <<envVars, serviceVars, proofVars, checkVars, notifVars, profileVars,
                   memoryShareLinks, warnVars, nextId>>

\* the pending migration is applied to the remote schema: the missing
\* tables and columns appear, empty
ApplyMigration ==
    /\ enabled
    /\ missing # {}
    /\ missing' = {}
    /\ lastOp' = Op("migration", "ok", 0, 0, 0, "none")
    /\ UNCHANGED <<enabled, serviceVars, proofVars, checkVars, notifVars, profileVars,
                   memoryShareLinks, warnVars, now, nextId>>

----------------------------------------------------------------------------
(* main.upload_and_sign_file *)

\* SupabaseRepository._append_local_ledgers, on one ledger file
AppendLocalLedger(ledger, proof) == Append(ledger, proof)

NewProof(verification_id, owner_email, content) ==
    LET hash == Digest(content)
        signature == Sign(hash)
    IN  [verification_id |-> verification_id,
         owner_email |-> owner_email,
         hash |-> hash,
         signature |-> signature,
         public_key |-> PublicKey,
         created_at |-> now,
         status |-> IF VerifyHashWithPublicKey(signature, hash) THEN "VERIFIED" ELSE "TAMPERED",
         share_token |-> NoToken,
         share_enabled |-> FALSE,
         external_check_count |-> 0,
         auto_delete_at |-> NoTime]

\* faulty variant: only the first ledger file is written
AppendLocalLedgers_NodeAOnly(proof) ==
    <<AppendLocalLedger(ledgerA, proof), ledgerB>>

\* _append_local_ledgers: each of the two files gets the proof appended to
\* its own content
AppendLocalLedgers(proof) ==
    <<AppendLocalLedger(ledgerA, proof), AppendLocalLedger(ledgerB, proof)>>

\* the file of a request that carries no bytes
EmptyFile == ""

\* faulty variant: the content is never taken for empty
IsEmpty_Never(content) == FALSE

\* if not content
IsEmpty(content) == content = EmptyFile

\* HTTP 400 raised before anything else was done
Rejected(name) ==
    /\ lastOp' = Op(name, "rejected", 0, 0, 0, "none")
    /\ UNCHANGED <<envVars, serviceVars, proofVars, checkVars, notifVars, profileVars,
                   memoryShareLinks, warnVars, now, nextId>>

Upload(owner_email, content) ==
    IF IsEmpty(content) THEN (~enabled => owner_email = Anonymous) /\ Rejected("upload")
    ELSE
    /\ nextId <= MaxProofs
    /\ (~enabled => owner_email = Anonymous)
    /\ LET proof == NewProof(nextId, owner_email, content)
       IN  IF enabled
           THEN /\ blobs' = blobs \cup {nextId}
                /\ remote' = remote \cup {proof}
                /\ UNCHANGED <<ledgerA, ledgerB>>
           ELSE /\ ledgerA' = AppendLocalLedgers(proof)[1]
                /\ ledgerB' = AppendLocalLedgers(proof)[2]
                /\ UNCHANGED <<remote, blobs>>
    /\ nextId' = nextId + 1
    /\ lastOp' = Op("upload", "ok", 0, 0, 0, "none")
    /\ UNCHANGED <<envVars, serviceVars, checkVars, notifVars, profileVars, memoryShareLinks,
                   warnVars, now>>

----------------------------------------------------------------------------
(* SupabaseRepository.enable_share_link *)

\* SupabaseRepository._overwrite_local_ledgers: the content written to a ledger
OverwriteLocalLedger(proofs) == proofs

\* faulty variant: enabling the share link counts as an external check
WithShare_CountsCheck(proof, share_token) ==
    [proof EXCEPT !.share_token = share_token, !.share_enabled = TRUE,
                  !.external_check_count = @ + 1]

\* the share payload applied to a record
WithShare(proof, share_token) ==
    [proof EXCEPT !.share_token = share_token, !.share_enabled = TRUE]

\* the index of the first element of a ledger that is in matching, 0 if none
FirstIndex(ledger, matching) ==
    LET hits == {i \in 1..Len(ledger) : ledger[i] \in matching}
    IN  IF hits = {} THEN 0 ELSE CHOOSE i \in hits : \A j \in hits : i <= j

\* the entries of the dict links after links[share_token] = verification_id
SetShareLink(links, share_token, verification_id) ==
    {l \in links : l[1] # share_token} \cup {<<share_token, verification_id>>}

EnableShareLink(verification_id, owner_email, share_token) ==
    LET w0 == <<warningCache, warnings>>
        w1 == WarnIf(SchemaError("share"), w0, "share_columns_update")
        owned == {p \in StoredProofs : p.verification_id = verification_id
                                        /\ p.owner_email = owner_email}
        patch(p) == WithShare(p, share_token)
    IN  /\ IF enabled /\ ~SchemaError("share")
           THEN \* remote update ... eq(verification_id).eq(owner_email)
                /\ remote' = {IF p \in owned THEN patch(p) ELSE p : p \in remote}
                /\ UNCHANGED <<ledgerA, ledgerB, memoryShareLinks>>
                /\ lastOp' = Op("enable_share_link", IF owned = {} THEN "none" ELSE "ok",
                                0, 0, 0, "none")
           ELSE IF enabled
           THEN \* share columns missing: the link is kept in memory
                /\ memoryShareLinks' = SetShareLink(memoryShareLinks, share_token,
                                                    verification_id)
                /\ UNCHANGED <<remote, ledgerA, ledgerB>>
                /\ lastOp' = Op("enable_share_link", "ok", 0, 0, 0,
                                WarnOutcome(w0, w1, {"share_columns_update"}))
           ELSE \* local ledger
                /\ IF owned = {}
                   THEN UNCHANGED <<ledgerA, ledgerB>>
                   ELSE LET first == FirstIndex(ReadLocalProofs, owned)
                            proofs == [ReadLocalProofs EXCEPT ![first] = patch(@)]
                        IN  /\ ledgerA' = OverwriteLocalLedger(proofs)
                            /\ ledgerB' = OverwriteLocalLedger(proofs)
                /\ UNCHANGED <<remote, memoryShareLinks>>
                /\ lastOp' = Op("enable_share_link", IF owned = {} THEN "none" ELSE "ok",
                                0, 0, 0, "none")
        /\ warningCache' = w1[1]
        /\ warnings' = w1[2]
        /\ UNCHANGED <<envVars, serviceVars, blobs, checkVars, notifVars, profileVars, now, nextId>>

----------------------------------------------------------------------------
(* SupabaseRepository.record_external_check *)

\* check_row
CheckRow(proof, checker_email, checker_hash, status) ==
    [verification_id |-> proof.verification_id,
     checker_email |-> checker_email,
     checker_hash |-> checker_hash,
     expected_hash |-> proof.hash,
     status |-> status]

\* faulty variant: the row is recorded only for a TAMPERED outcome
InsertCheckRow_OnlyTampered(checks, row) ==
    IF row.status # "TAMPERED" THEN checks
    ELSE IF enabled /\ ~SchemaError("checks")
    THEN <<Append(checks[1], row), checks[2]>>
    ELSE <<checks[1], Append(checks[2], row)>>

\* where the check row goes: <<remote rows, local rows>> after the insert
InsertCheckRow(checks, row) ==
    IF enabled /\ ~SchemaError("checks")
    THEN <<Append(checks[1], row), checks[2]>>
    ELSE <<checks[1], Append(checks[2], row)>>

\* next_count
NextCount(proof) == proof.external_check_count + 1

\* auto_delete_at of the patch: kept when the proof handed in has one
PatchAutoDeleteAt(proof) ==
    IF proof.auto_delete_at = NoTime
    THEN now + AutoDeleteAfterHours
    ELSE proof.auto_delete_at

\* faulty variant: the patch also carries the outcome of the check
WithPatch_StoresStatus(item, proof) ==
    [item EXCEPT !.external_check_count = NextCount(proof),
                 !.auto_delete_at = PatchAutoDeleteAt(proof),
                 !.status = "TAMPERED"]

\* {**item, **patch}
WithPatch(item, proof) ==
    [item EXCEPT !.external_check_count = NextCount(proof),
                 !.auto_delete_at = PatchAutoDeleteAt(proof)]

\* the rows of the remote proofs table after update(patch).eq(verification_id)
RemotePatched(proof) ==
    IF SchemaError("autodelete") THEN remote
    ELSE {IF p.verification_id = proof.verification_id THEN WithPatch(p, proof) ELSE p :
             p \in remote}

\* the ledger content after the local branch of record_external_check
LedgerPatched(proof) ==
    LET first == FirstIndex(ReadLocalProofs,
                            {p \in SeqToSet(ReadLocalProofs) :
                                p.verification_id = proof.verification_id})
    IN  IF first = 0 THEN ReadLocalProofs
        ELSE [ReadLocalProofs EXCEPT ![first] = WithPatch(@, proof)]

\* the proof record_external_check returns
CheckedProof(proof) ==
    IF enabled
    THEN LET data == {p \in RemotePatched(proof) : p.verification_id = proof.verification_id}
         IN  IF ~SchemaError("autodelete") /\ data # {}
             THEN CHOOSE p \in data : TRUE
             ELSE WithPatch(proof, proof)
    ELSE LET items == FirstMatch(LedgerPatched(proof),
                          {p \in SeqToSet(LedgerPatched(proof)) :
                              p.verification_id = proof.verification_id})
         IN  IF items # {} THEN CHOOSE p \in items : TRUE ELSE proof

----------------------------------------------------------------------------
(* SupabaseRepository.insert_notification *)

Notification(id, owner_email, verification_id, event_type) ==
    [id |-> id, owner_email |-> owner_email, verification_id |-> verification_id,
     event_type |-> event_type, read_at |-> NoTime]

\* <<remote rows, local rows>> after the insert; the remote table numbers
\* its rows itself, the fallback numbers them len + 1
InsertNotification(notifs, owner_email, verification_id, event_type) ==
    IF enabled /\ ~SchemaError("notifications")
    THEN <<Append(notifs[1],
                  Notification(Len(notifs[1]) + 1, owner_email, verification_id, event_type)),
           notifs[2]>>
    ELSE <<notifs[1],
           Append(notifs[2],
                  Notification(Len(notifs[2]) + 1, owner_email, verification_id, event_type))>>

----------------------------------------------------------------------------
(* main.verify_shared_upload *)

VerifySharedUpload(share_token, content) ==
    IF IsEmpty(content) THEN Rejected("verify_shared_upload")
    ELSE
    LET w0 == <<warningCache, warnings>>
        w1 == WarnIf(SchemaError("share"), w0, "share_columns_lookup")
        found == GetProofByShareToken(share_token)
    IN  IF found = {}
        THEN \* 404: only the lookup's warning remains
             /\ warningCache' = w1[1]
             /\ warnings' = w1[2]
             /\ lastOp' = Op("verify_shared_upload", "none", 0, 0, 0,
                             WarnOutcome(w0, w1, IF SchemaError("share")
                                                 THEN {"share_columns_lookup"} ELSE {}))
             /\ UNCHANGED <<envVars, serviceVars, proofVars, checkVars, notifVars, profileVars,
                            memoryShareLinks, now, nextId>>
        ELSE \E proof \in found :
             LET signature_valid == VerifyHashWithPublicKey(proof.signature, proof.hash)
                 submitted_hash == Digest(content)
                 file_hash_match == (submitted_hash = proof.hash)
                 status == SharedStatus(signature_valid, file_hash_match)
                 had_auto_delete == proof.auto_delete_at # NoTime
                 \* record_external_check
                 checks == InsertCheckRow(<<remoteChecks, localChecks>>,
                                          CheckRow(proof, Guest, submitted_hash, status))
                 w2 == WarnIf(SchemaError("checks"), w1, "verification_checks")
                 w3 == WarnIf(SchemaError("autodelete"), w2, "integrity_proofs_share_fields")
                 updated_proof == CheckedProof(proof)
                 \* insert_notification, once or twice
                 event_type == IF status = "TAMPERED"
                               THEN "SHARED_FILE_TAMPERED" ELSE "SHARED_FILE_RECHECKED"
                 n1 == InsertNotification(<<remoteNotifs, localNotifs>>, proof.owner_email,
                                          proof.verification_id, event_type)
                 n2 == IF ~had_auto_delete /\ updated_proof.auto_delete_at # NoTime
                       THEN InsertNotification(n1, proof.owner_email, proof.verification_id,
                                               "AUTO_DELETE_SCHEDULED")
                       ELSE n1
                 w4 == WarnIf(SchemaError("notifications"), w3, "user_notifications_insert")
                 hit == {k \in WarnKeys :
                            \/ k = "share_columns_lookup" /\ SchemaError("share")
                            \/ k = "verification_checks" /\ SchemaError("checks")
                            \/ k = "integrity_proofs_share_fields" /\ SchemaError("autodelete")
                            \/ k = "user_notifications_insert" /\ SchemaError("notifications")}
             IN  /\ Len(remoteChecks) + Len(localChecks) < MaxChecks
                 /\ remoteChecks' = checks[1]
                 /\ localChecks' = checks[2]
                 /\ IF enabled
                    THEN /\ remote' = RemotePatched(proof)
                         /\ UNCHANGED <<ledgerA, ledgerB>>
                    ELSE /\ ledgerA' = OverwriteLocalLedger(LedgerPatched(proof))
                         /\ ledgerB' = OverwriteLocalLedger(LedgerPatched(proof))
                         /\ UNCHANGED remote
                 /\ remoteNotifs' = n2[1]
                 /\ localNotifs' = n2[2]
                 /\ warningCache' = w4[1]
                 /\ warnings' = w4[2]
                 /\ lastOp' = Op("verify_shared_upload", "ok", 0, 0, 0,
                                 WarnOutcome(w0, w4, hit))
                 /\ UNCHANGED <<envVars, serviceVars, blobs, profileVars, memoryShareLinks, now, nextId>>

----------------------------------------------------------------------------
(* SupabaseRepository.delete_proof *)

\* faulty variant: the ownership test is left out
DeleteAuthorized_Anyone(proof, owner_email) == TRUE

\* the ownership test of delete_proof
DeleteAuthorized(proof, owner_email) == proof.owner_email = owner_email

\* SupabaseRepository.delete_vault_blob: without a client nothing is removed;
\* with one, a failing removal is logged and swallowed (removed = FALSE)
BlobsAfterDelete(stored, path, removed) ==
    IF enabled /\ removed THEN stored \ {path} ELSE stored

\* SupabaseRepository._remove_memory_share_links_for_verification
RemoveMemoryShareLinks(links, verification_id) ==
    {l \in links : l[2] # verification_id}

\* the ledger without the records of one verification_id
LedgerWithout(proofs, verification_id) ==
    SelectSeqBy(proofs, {p \in SeqToSet(proofs) : p.verification_id # verification_id})

DeleteProof(verification_id, owner_email) ==
    LET found == GetProof(verification_id)
        allowed == {p \in found : DeleteAuthorized(p, owner_email)}
    IN  IF allowed = {}
        THEN /\ lastOp' = Op("delete_proof", "none", 0, 0, 0, "none")
             /\ UNCHANGED <<envVars, serviceVars, proofVars, checkVars, notifVars, profileVars,
                            memoryShareLinks, warnVars, now, nextId>>
        ELSE \E removed \in BOOLEAN :
             /\ blobs' = BlobsAfterDelete(blobs, verification_id, removed)
             /\ IF enabled
                THEN /\ remote' = {p \in remote : ~(p.verification_id = verification_id
                                                     /\ p.owner_email = owner_email)}
                     /\ UNCHANGED <<ledgerA, ledgerB>>
                ELSE LET proofs == LedgerWithout(ReadLocalProofs, verification_id)
                     IN  /\ ledgerA' = OverwriteLocalLedger(proofs)
                         /\ ledgerB' = OverwriteLocalLedger(proofs)
                         /\ UNCHANGED remote
             /\ memoryShareLinks' = RemoveMemoryShareLinks(memoryShareLinks, verification_id)
             /\ lastOp' = Op("delete_proof", "ok", 0, 0, 0, "none")
             /\ UNCHANGED <<envVars, serviceVars, checkVars, notifVars, profileVars, warnVars, now, nextId>>

----------------------------------------------------------------------------
(* SupabaseRepository.cleanup_expired_proofs *)

\* faulty variant: the query selects every scheduled record, passed or not
RemoteExpiredRows_NoTimeFilter(limit) ==
    LET scheduled == {p \in remote : p.auto_delete_at # NoTime}
    IN  {rows \in SUBSET scheduled : Cardinality(rows) = Min(limit, Cardinality(scheduled))}

\* remote branch: the possible results of
\* select(...).lte("auto_delete_at", now).limit(limit), no order given
RemoteExpiredRows(limit) ==
    {rows \in SUBSET Expired(remote) :
        Cardinality(rows) = Min(limit, Cardinality(Expired(remote)))}

\* faulty variant: a record with no auto_delete_at is not kept
LocalKept_DropsUnscheduled(proofs) ==
    SelectSeqBy(proofs, {p \in SeqToSet(proofs) : p.auto_delete_at # NoTime
                                                  /\ p.auto_delete_at > now})

\* local branch: the records the loop keeps
LocalKept(proofs) ==
    SelectSeqBy(proofs, SeqToSet(proofs) \ Expired(SeqToSet(proofs)))

\* local branch: the counter "removed"
LocalRemoved(proofs) == Len(proofs) - Len(LocalKept(proofs))

CleanupExpiredProofs(limit) ==
    LET w0 == <<warningCache, warnings>>
        w1 == WarnIf(SchemaError("autodelete"), w0, "integrity_proofs_auto_delete")
        pre == Cardinality(Expired(StoredProofs))
        rep == lastOp.op = "cleanup_expired_proofs" /\ lastOp.all /\ lastOp.ret > 0
        Done(ret, warn) == [Op("cleanup_expired_proofs", "ok", ret, limit, pre, warn)
                               EXCEPT !.rep = rep]
    IN  /\ warningCache' = w1[1]
        /\ warnings' = w1[2]
        /\ IF enabled /\ SchemaError("autodelete")
           THEN /\ lastOp' = Done(0, WarnOutcome(w0, w1, {"integrity_proofs_auto_delete"}))
                /\ UNCHANGED proofVars
           ELSE IF enabled
           THEN \E rows \in RemoteExpiredRows(limit) :
                \E failed \in SUBSET {r.verification_id : r \in rows} :
                   /\ blobs' = blobs \ ({r.verification_id : r \in rows} \ failed)
                   /\ remote' = {p \in remote :
                                    p.verification_id \notin {r.verification_id : r \in rows}}
                   /\ lastOp' = Done(Cardinality(rows), "none")
                   /\ UNCHANGED <<ledgerA, ledgerB>>
           ELSE LET proofs == ReadLocalProofs
                    removed == LocalRemoved(proofs)
                IN  /\ IF removed > 0
                       THEN /\ ledgerA' = OverwriteLocalLedger(LocalKept(proofs))
                            /\ ledgerB' = OverwriteLocalLedger(LocalKept(proofs))
                       ELSE UNCHANGED <<ledgerA, ledgerB>>
                    /\ lastOp' = Done(removed, "none")
                    /\ UNCHANGED <<remote, blobs>>
        /\ UNCHANGED <<envVars, serviceVars, checkVars, notifVars, profileVars, memoryShareLinks,
                       now, nextId>>

----------------------------------------------------------------------------
(* The proof store: uploads, share links, external checks, deletion, cleanup *)

Next ==
    \/ Tick
    \/ \E o \in Owners, c \in UploadContents : Upload(o, c)
    \/ \E id \in Ids, o \in Owners, t \in Tokens : EnableShareLink(id, o, t)
    \/ \E t \in Tokens, c \in Contents : VerifySharedUpload(t, c)
    \/ \E id \in Ids, o \in Owners : DeleteProof(id, o)
    \/ \E limit \in 1..MaxProofs : CleanupExpiredProofs(limit)

Spec == Init /\ [][Next]_vars

----------------------------------------------------------------------------
(* main.get_shared_proof_details: a lookup by share token *)

SharedProofDetails(share_token) ==
    LET w0 == <<warningCache, warnings>>
        w1 == WarnIf(SchemaError("share"), w0, "share_columns_lookup")
        found == GetProofByShareToken(share_token)
    IN  /\ warningCache' = w1[1]
        /\ warnings' = w1[2]
        /\ lastOp' = Op("get_shared_proof_details", IF found = {} THEN "none" ELSE "ok",
                        0, 0, 0,
                        WarnOutcome(w0, w1, IF SchemaError("share")
                                            THEN {"share_columns_lookup"} ELSE {}))
        /\ UNCHANGED <<envVars, serviceVars, proofVars, checkVars, notifVars, profileVars,
                       memoryShareLinks, now, nextId>>

----------------------------------------------------------------------------
(* SupabaseRepository.list_notifications / mark_notification_read *)

\* faulty variant: the owner filter is left out
ListNotificationsRows_Unfiltered(owner_email) ==
    IF enabled /\ ~SchemaError("notifications") THEN remoteNotifs ELSE localNotifs

\* the rows list_notifications returns for an owner (their order, by
\* created_at, is not modelled; limit is above the number of rows)
ListNotificationsRows(owner_email) ==
    LET source == IF enabled /\ ~SchemaError("notifications")
                  THEN remoteNotifs ELSE localNotifs
    IN  SelectSeqBy(source, {n \in SeqToSet(source) : n.owner_email = owner_email})

ListNotifications(owner_email) ==
    LET w0 == <<warningCache, warnings>>
        w1 == WarnIf(SchemaError("notifications"), w0, "user_notifications_list")
    IN  /\ warningCache' = w1[1]
        /\ warnings' = w1[2]
        /\ lastOp' = Op("list_notifications", "ok", Len(ListNotificationsRows(owner_email)),
                        0, 0,
                        WarnOutcome(w0, w1, IF SchemaError("notifications")
                                            THEN {"user_notifications_list"} ELSE {}))
        /\ UNCHANGED <<envVars, serviceVars, proofVars, checkVars, notifVars, profileVars,
                       memoryShareLinks, now, nextId>>

\* a notification list with the rows of one id and owner marked read
MarkedRead(notifs, notification_id, owner_email) ==
    [i \in 1..Len(notifs) |->
        IF notifs[i].id = notification_id /\ notifs[i].owner_email = owner_email
        THEN [notifs[i] EXCEPT !.read_at = now] ELSE notifs[i]]

MarkNotificationRead(notification_id, owner_email) ==
    LET w0 == <<warningCache, warnings>>
        w1 == WarnIf(SchemaError("notifications"), w0, "user_notifications_mark_read")
        source == IF enabled /\ ~SchemaError("notifications")
                  THEN remoteNotifs ELSE localNotifs
        hit == \E i \in 1..Len(source) :
                  source[i].id = notification_id /\ source[i].owner_email = owner_email
    IN  /\ warningCache' = w1[1]
        /\ warnings' = w1[2]
        /\ IF enabled /\ ~SchemaError("notifications")
           THEN /\ remoteNotifs' = MarkedRead(remoteNotifs, notification_id, owner_email)
                /\ UNCHANGED localNotifs
           ELSE /\ localNotifs' = MarkedRead(localNotifs, notification_id, owner_email)
                /\ UNCHANGED remoteNotifs
        /\ lastOp' = Op("mark_notification_read", IF hit THEN "ok" ELSE "none", 0, 0, 0,
                        WarnOutcome(w0, w1, IF SchemaError("notifications")
                                            THEN {"user_notifications_mark_read"} ELSE {}))
        /\ UNCHANGED <<envVars, serviceVars, proofVars, checkVars, profileVars, memoryShareLinks,
                       now, nextId>>

----------------------------------------------------------------------------
(* SupabaseRepository.get_or_create_profile / update_profile *)

\* SupabaseRepository._default_profile
DefaultProfile(user) ==
    [id |-> user, email |-> user, handle |-> "default",
     created_at |-> now, updated_at |-> now]

\* <<remote profiles, local profiles>> after get_or_create_profile
ProfilesAfterGetOrCreate(profiles, user) ==
    IF enabled /\ ~SchemaError("profiles")
    THEN IF \E p \in profiles[1] : p.id = user
         THEN profiles
         ELSE <<profiles[1] \cup {DefaultProfile(user)}, profiles[2]>>
    ELSE IF \E p \in profiles[2] : p.email = user
         THEN profiles
         ELSE <<profiles[1], profiles[2] \cup {DefaultProfile(user)}>>

\* safe_updates applied to a profile
WithUpdates(profile, handle) ==
    [profile EXCEPT !.handle = IF handle = Null THEN @ ELSE handle]

GetOrCreateProfile(user) ==
    LET w0 == <<warningCache, warnings>>
        w1 == WarnIf(SchemaError("profiles"), w0, "user_profiles")
        after == ProfilesAfterGetOrCreate(<<remoteProfiles, localProfiles>>, user)
    IN  /\ remoteProfiles' = after[1]
        /\ localProfiles' = after[2]
        /\ warningCache' = w1[1]
        /\ warnings' = w1[2]
        /\ lastOp' = Op("get_or_create_profile", "ok", 0, 0, 0,
                        WarnOutcome(w0, w1, IF SchemaError("profiles")
                                            THEN {"user_profiles"} ELSE {}))
        /\ UNCHANGED <<envVars, serviceVars, proofVars, checkVars, notifVars, memoryShareLinks,
                       now, nextId>>

UpdateProfile(user, handle) ==
    LET w0 == <<warningCache, warnings>>
        w1 == WarnIf(SchemaError("profiles"), w0, "user_profiles")
        got == ProfilesAfterGetOrCreate(<<remoteProfiles, localProfiles>>, user)
        empty == handle = Null
        w2 == WarnIf(~empty /\ SchemaError("profiles"), w1, "user_profiles_update")
        hit == IF ~SchemaError("profiles") THEN {}
               ELSE IF empty THEN {"user_profiles"}
               ELSE {"user_profiles", "user_profiles_update"}
    IN  /\ IF empty
           THEN \* no safe update: the profile is returned as it is
                /\ remoteProfiles' = got[1]
                /\ localProfiles' = got[2]
           ELSE IF enabled /\ ~SchemaError("profiles")
           THEN \* remote update(safe_updates).eq(id).eq(email)
                /\ remoteProfiles' = {IF p.id = user /\ p.email = user
                                      THEN WithUpdates(p, handle) ELSE p : p \in got[1]}
                /\ localProfiles' = got[2]
           ELSE \* in memory: the patch and a fresh updated_at
                /\ localProfiles' = {IF p.email = user
                                     THEN [WithUpdates(p, handle) EXCEPT !.updated_at = now]
                                     ELSE p : p \in got[2]}
                /\ remoteProfiles' = got[1]
        /\ warningCache' = w2[1]
        /\ warnings' = w2[2]
        /\ lastOp' = Op("update_profile", "ok", 0, 0, 0, WarnOutcome(w0, w2, hit))
        /\ UNCHANGED <<envVars, serviceVars, proofVars, checkVars, notifVars, memoryShareLinks,
                       now, nextId>>

----------------------------------------------------------------------------
(* The store in remote mode against a schema that lacks optional parts *)

InitFallback == Init /\ enabled /\ missing = Features

NextFallback ==
    \/ ApplyMigration
    \/ \E o \in Owners, c \in UploadContents : nextId <= FallbackProofs /\ Upload(o, c)
    \/ \E id \in 1..FallbackProofs, o \in Owners, t \in Tokens : EnableShareLink(id, o, t)
    \/ \E t \in Tokens : SharedProofDetails(t)
    \/ \E t \in Tokens, c \in Contents :
          Len(remoteChecks) + Len(localChecks) < FallbackChecks /\ VerifySharedUpload(t, c)
    \/ \E limit \in 1..MaxProofs : CleanupExpiredProofs(limit)
    \/ \E o \in Users : ListNotifications(o)
    \/ \E n \in 1..(2 * MaxChecks), o \in Users : MarkNotificationRead(n, o)
    \/ \E u \in Users : GetOrCreateProfile(u)
    \/ \E u \in Users, h \in HandleUpdates : UpdateProfile(u, h)

SpecFallback == InitFallback /\ [][NextFallback]_vars

----------------------------------------------------------------------------
(* Remote calls that fail: the except branches of SupabaseRepository *)

\* An exception of a remote call, as _is_schema_compat_error reads it: the
\* "code" of its payload ("" when the payload is no dict) and those of the
\* phrases the classifier looks for that its text contains.
Timeout == [code |-> "", phrases |-> {}]
PermissionDenied == [code |-> "42501", phrases |-> {}]
TransientErrors == {Timeout, PermissionDenied}

\* faulty variant: every error that carries a database code counts
IsSchemaCompatError_AnyCoded(exc) ==
    exc.code # "" \/ exc.phrases # {}

\* SupabaseRepository._is_schema_compat_error
IsSchemaCompatError(exc) ==
    \/ exc.code \in {"42703", "42P01", "PGRST205"}
    \/ exc.phrases \cap {"does not exist", "schema cache", "could not find the table"} # {}

\* the remote calls that sit in a try block, by operation (the two calls of
\* record_external_check apart; update_profile is its update call, reached
\* after get_or_create_profile returned)
FailingCalls ==
    {"get_or_create_profile", "update_profile", "get_proof_by_share_token",
     "enable_share_link", "record_external_check.insert", "record_external_check.update",
     "insert_notification", "list_notifications", "mark_notification_read",
     "cleanup_expired_proofs"}

\* the warning key of the except branch of a call
WarnKeyOfCall(call) ==
    CASE call = "get_or_create_profile" -> "user_profiles"
      [] call = "update_profile" -> "user_profiles_update"
      [] call = "get_proof_by_share_token" -> "share_columns_lookup"
      [] call = "enable_share_link" -> "share_columns_update"
      [] call = "record_external_check.insert" -> "verification_checks"
      [] call = "record_external_check.update" -> "integrity_proofs_share_fields"
      [] call = "insert_notification" -> "user_notifications_insert"
      [] call = "list_notifications" -> "user_notifications_list"
      [] call = "mark_notification_read" -> "user_notifications_mark_read"
      [] call = "cleanup_expired_proofs" -> "integrity_proofs_auto_delete"

\* The operation of `call`, for user u / proof / token t (a proof is
\* stored), whose remote call `call` raises exc.  What the operation did before that call stays done;
\* the except branch re-raises unless the classifier accepts exc, and then
\* warns and writes the substitute.
RemoteFailure(call, exc) ==
    /\ enabled
    /\ \E u \in Users, t \in Tokens, proof \in StoredProofs :
        LET w0 == <<warningCache, warnings>>
            \* update_profile: get_or_create_profile has returned
            profiles0 == IF call = "update_profile"
                         THEN ProfilesAfterGetOrCreate(<<remoteProfiles, localProfiles>>, u)
                         ELSE <<remoteProfiles, localProfiles>>
            w1 == WarnIf(call = "update_profile" /\ SchemaError("profiles"), w0,
                         "user_profiles")
            \* record_external_check: the check row has been inserted
            checks0 == IF call = "record_external_check.update"
                       THEN InsertCheckRow(<<remoteChecks, localChecks>>,
                                           CheckRow(proof, Guest, proof.hash, "VERIFIED"))
                       ELSE <<remoteChecks, localChecks>>
            w2 == WarnIf(call = "record_external_check.update" /\ SchemaError("checks"), w1,
                         "verification_checks")
            raised == ~IsSchemaCompatError(exc)
            w3 == IF raised THEN w2 ELSE WarnSchemaFallback(w2, WarnKeyOfCall(call))
        IN  /\ call \in {"record_external_check.insert", "record_external_check.update"}
                => Len(remoteChecks) + Len(localChecks) < MaxChecks
            /\ remoteProfiles' = profiles0[1]
            /\ localProfiles' =
                  IF ~raised /\ call = "get_or_create_profile"
                  THEN profiles0[2] \cup {DefaultProfile(u)}
                  ELSE profiles0[2]
            /\ remoteChecks' = checks0[1]
            /\ localChecks' =
                  IF ~raised /\ call = "record_external_check.insert"
                  THEN Append(checks0[2], CheckRow(proof, Guest, proof.hash, "VERIFIED"))
                  ELSE checks0[2]
            /\ localNotifs' =
                  IF ~raised /\ call = "insert_notification"
                  THEN Append(localNotifs,
                              Notification(Len(localNotifs) + 1, proof.owner_email,
                                           proof.verification_id, "SHARED_FILE_RECHECKED"))
                  ELSE localNotifs
            /\ memoryShareLinks' =
                  IF ~raised /\ call = "enable_share_link"
                  THEN SetShareLink(memoryShareLinks, t, proof.verification_id)
                  ELSE memoryShareLinks
            /\ warningCache' = w3[1]
            /\ warnings' = w3[2]
            /\ lastOp' = Op(call, IF raised THEN "raised" ELSE "ok", 0, 0, 0,
                            WarnOutcome(w0, w3, {}))
            /\ UNCHANGED <<envVars, serviceVars, proofVars, remoteNotifs, now, nextId>>

\* Remote mode with transient failures
InitFailure ==
    /\ enabled = TRUE
    /\ missing \in {{}, {"checks", "profiles"}, Features}
    /\ InitStore

NextFailure ==
    \/ \E o \in Owners, c \in UploadContents : nextId <= FallbackProofs /\ Upload(o, c)
    \/ \E id \in 1..FallbackProofs, o \in Owners, t \in Tokens : EnableShareLink(id, o, t)
    \/ \E t \in Tokens, c \in Contents :
          Len(remoteChecks) + Len(localChecks) < FallbackChecks /\ VerifySharedUpload(t, c)
    \/ \E u \in Users : GetOrCreateProfile(u)
    \/ \E call \in FailingCalls, exc \in TransientErrors : RemoteFailure(call, exc)

SpecFailure == InitFailure /\ [][NextFailure]_vars

----------------------------------------------------------------------------
(* The profile operations over time, in either mode *)

\* the profile get_or_create_profile and update_profile hand back for a
\* user once they are done, as a set of at most one
ProfileOf(user) ==
    IF enabled /\ ~SchemaError("profiles")
    THEN {p \in remoteProfiles : p.id = user}
    ELSE {p \in localProfiles : p.email = user}

InitProfile ==
    /\ enabled \in BOOLEAN
    /\ missing \in {{}, {"profiles"}}
    /\ (~enabled => missing = {})
    /\ InitStore

NextProfile ==
    \/ Tick
    \/ ApplyMigration
    \/ \E u \in Users : GetOrCreateProfile(u)
    \/ \E u \in Users, h \in HandleUpdates : UpdateProfile(u, h)

SpecProfile == InitProfile /\ [][NextProfile]_vars

----------------------------------------------------------------------------
(* main.verify_proof: the owner's re-verification, with or without a file *)

NoFile == "nofile"

\* 404 when the proof is unknown, 403 in remote mode for a foreign proof;
\* else the response status, computed from the stored signature and the
\* submitted file. Nothing is written.
\* faulty variant: a proof of another owner is answered like an unknown one
Refusal_HidesForeign(found, user, check_owner) ==
    IF found = {} \/ (check_owner /\ \E p \in found : p.owner_email # user)
    THEN "not_found" ELSE "ok"

\* the handlers' lookup: 404 for an unknown verification_id, 403 for a
\* proof of another owner where ownership is checked
Refusal(found, user, check_owner) ==
    IF found = {} THEN "not_found"
    ELSE IF check_owner /\ \E p \in found : p.owner_email # user THEN "forbidden"
    ELSE "ok"

\* require_authenticated_user: signed in, which needs the remote backend
Authenticated(user) == enabled /\ user \in Users

\* the request is answered with an error and nothing was done
Refused(name, outcome) ==
    /\ lastOp' = Op(name, outcome, 0, 0, 0, "none")
    /\ UNCHANGED <<envVars, serviceVars, proofVars, checkVars, notifVars, profileVars,
                   memoryShareLinks, warnVars, now, nextId>>

VerifyProof(verification_id, owner_email, file) ==
    LET found == GetProof(verification_id)
        Status(proof) ==
            OwnerStatus(VerifyHashWithPublicKey(proof.signature, proof.hash),
                        file # NoFile, Digest(file) = proof.hash)
    IN  /\ (~enabled => owner_email = Anonymous)
        /\ IF Refusal(found, owner_email, enabled) # "ok"
           THEN lastOp' = Op("verify_proof", Refusal(found, owner_email, enabled),
                             0, 0, 0, "none")
           ELSE \E proof \in found :
                   lastOp' = Op("verify_proof", Status(proof), 0, 0, 0, "none")
        /\ UNCHANGED <<envVars, serviceVars, proofVars, checkVars, notifVars, profileVars,
                       memoryShareLinks, warnVars, now, nextId>>

InitVerify == Init /\ missing = {}

NextVerify ==
    \/ Tick
    \/ \E o \in Owners, c \in UploadContents : Upload(o, c)
    \/ \E id \in Ids, o \in Owners, t \in Tokens : EnableShareLink(id, o, t)
    \/ \E t \in Tokens, c \in Contents : VerifySharedUpload(t, c)
    \/ \E id \in Ids, o \in Owners, c \in Contents \cup {NoFile} : VerifyProof(id, o, c)
    \/ \E limit \in 1..MaxProofs : CleanupExpiredProofs(limit)

SpecVerify == InitVerify /\ [][NextVerify]_vars

----------------------------------------------------------------------------
(* SupabaseRepository.list_proofs *)

\* no owner given (None, or an empty string) is Null
OwnerFilters == Owners \cup {Null}

Matches(proof, owner_email) == owner_email = Null \/ proof.owner_email = owner_email

Take(rows, limit) == SubSeq(rows, 1, Min(limit, Len(rows)))

RECURSIVE InsertByCreatedAt_Ascending(_, _)
\* faulty variant: the newest record goes last
InsertByCreatedAt_Ascending(sorted, item) ==
    IF sorted = <<>> THEN <<item>>
    ELSE IF Head(sorted).created_at <= item.created_at
    THEN <<Head(sorted)>> \o InsertByCreatedAt_Ascending(Tail(sorted), item)
    ELSE <<item>> \o sorted

RECURSIVE InsertByCreatedAt(_, _)
\* item placed behind every record that is not older (the sort is stable)
InsertByCreatedAt(sorted, item) ==
    IF sorted = <<>> THEN <<item>>
    ELSE IF Head(sorted).created_at >= item.created_at
    THEN <<Head(sorted)>> \o InsertByCreatedAt(Tail(sorted), item)
    ELSE <<item>> \o sorted

RECURSIVE SortByCreatedAt(_)
\* proofs.sort(key=created_at, reverse=True)
SortByCreatedAt(proofs) ==
    IF proofs = <<>> THEN <<>>
    ELSE InsertByCreatedAt(SortByCreatedAt(SubSeq(proofs, 1, Len(proofs) - 1)),
                           proofs[Len(proofs)])

\* order("created_at", desc=True) over a set of rows: every arrangement
\* that is not ascending anywhere (rows of equal created_at in any order)
OrderedByCreatedAt(rows) ==
    {s \in [1..Cardinality(rows) -> rows] :
        /\ \A i, j \in DOMAIN s : i # j => s[i] # s[j]
        /\ \A i, j \in DOMAIN s : i < j => s[i].created_at >= s[j].created_at}

\* the lists list_proofs(owner_email, limit) can return
ListProofsRows(owner_email, limit) ==
    IF enabled
    THEN {Take(s, limit) :
             s \in OrderedByCreatedAt({p \in remote : Matches(p, owner_email)})}
    ELSE {Take(SortByCreatedAt(
                  SelectSeqBy(ReadLocalProofs,
                              {p \in SeqToSet(ReadLocalProofs) : Matches(p, owner_email)})),
               limit)}

ListProofs(owner_email, limit) ==
    /\ \E rows \in ListProofsRows(owner_email, limit) :
          lastOp' = Op("list_proofs", "ok", Len(rows), 0, 0, "none")
    /\ UNCHANGED <<envVars, serviceVars, proofVars, checkVars, notifVars, profileVars,
                   memoryShareLinks, warnVars, now, nextId>>

\* main.list_proofs: the owner handed to the repository
EndpointOwner(owner_email) == IF enabled THEN owner_email ELSE Null

InitList == Init /\ missing = {}

NextList ==
    \/ Tick
    \/ \E o \in Owners, c \in UploadContents : Upload(o, c)
    \/ \E id \in Ids, o \in Owners : DeleteProof(id, o)
    \/ \E o \in OwnerFilters, limit \in 1..MaxProofs : ListProofs(o, limit)

SpecList == InitList /\ [][NextList]_vars

----------------------------------------------------------------------------
(* PQCEngine.verify_hash_with_public_key, on transported keys and signatures *)

Algorithms == {"ed25519", "ML-DSA-65"}
KeyIds == {"k1", "k2"}

\* bytes that are no key, and bytes that are no signature, of any algorithm
JunkKey == [alg |-> "junk", key |-> "junk"]
JunkSignature == [alg |-> "junk", key |-> "junk", payload |-> "junk"]

KeyBytes == [alg : Algorithms, key : KeyIds] \cup {JunkKey}

\* a signature made with a key over a payload, or junk
SignatureBytes == [alg : Algorithms, key : KeyIds, payload : Contents] \cup {JunkSignature}

\* a base64 text: the padded encoding of its bytes, the same with characters
\* outside the alphabet mixed in, or cut so that the padding is incorrect
Base64Forms == {"padded", "noisy", "truncated"}
Base64Of(bytes) == [form : Base64Forms, bytes : bytes]

\* base64.b64encode
B64Encode(bytes) == [form |-> "padded", bytes |-> bytes]

\* base64.b64decode (validate off) drops foreign characters and raises
\* binascii.Error on incorrect padding
B64DecodeRaises(text) == text.form = "truncated"
B64Decode(text) == text.bytes

\* the algorithm of the active backend
ActiveAlgorithm(fallback_active) == IF fallback_active THEN "ed25519" ELSE "ML-DSA-65"

\* faulty variant: the signature is not tied to the payload
BackendVerify_AnyPayload(fallback_active, public_key, signature, payload) ==
    /\ public_key # JunkKey
    /\ public_key.alg = ActiveAlgorithm(fallback_active)
    /\ signature # JunkSignature
    /\ signature.alg = public_key.alg
    /\ signature.key = public_key.key

\* inside the try blocks: loading the key and verifying; every exception
\* there becomes False
BackendVerify(fallback_active, public_key, signature, payload) ==
    /\ public_key # JunkKey
    /\ public_key.alg = ActiveAlgorithm(fallback_active)
    /\ signature # JunkSignature
    /\ signature = [alg |-> public_key.alg, key |-> public_key.key, payload |-> payload]

\* "true", "false", or "raised": the key is decoded before the try blocks
VerifyHashWithPublicKeyB64(fallback_active, signature, hash_value, public_key_b64) ==
    IF B64DecodeRaises(public_key_b64) THEN "raised"
    ELSE IF BackendVerify(fallback_active, B64Decode(public_key_b64), signature, hash_value)
    THEN "true" ELSE "false"

\* main.verify_proof and main.verify_shared_upload: the stored signature is
\* decoded, then verified with the stored key
StoredSignatureValid(fallback_active, signature_b64, hash_value, public_key_b64) ==
    IF B64DecodeRaises(signature_b64) THEN "raised"
    ELSE VerifyHashWithPublicKeyB64(fallback_active, B64Decode(signature_b64),
                                    hash_value, public_key_b64)

\* sign_hash of an engine whose key pair is key
SignHash(fallback_active, key, hash_value) ==
    [alg |-> ActiveAlgorithm(fallback_active), key |-> key, payload |-> hash_value]

\* export_public_key_b64
ExportPublicKeyB64(fallback_active, key) ==
    B64Encode([alg |-> ActiveAlgorithm(fallback_active), key |-> key])

\* verify_hash: the engine's own public key, encoded, then
\* verify_hash_with_public_key
VerifyHash(fallback_active, key, signature, hash_value) ==
    VerifyHashWithPublicKeyB64(fallback_active, signature, hash_value,
        B64Encode([alg |-> ActiveAlgorithm(fallback_active), key |-> key]))

\* main.upload_and_sign_file, lines 160-165: sign the digest, verify the
\* signature against a digest, name the status
SignThenVerify(fallback_active, key, hash_value, checked_hash) ==
    /\ lastOp' = [op |-> "sign_hash",
                  outcome |-> VerifyHash(fallback_active, key,
                                         SignHash(fallback_active, key, hash_value),
                                         checked_hash),
                  ret |-> 0, all |-> TRUE, warn |-> "none", rep |-> FALSE,
                  args |-> <<fallback_active, key, hash_value, checked_hash>>]
    /\ UNCHANGED <<envVars, serviceVars, proofVars, checkVars, notifVars, profileVars,
                   memoryShareLinks, warnVars, now, nextId>>

VerifyCall(fallback_active, signature, hash_value, public_key_b64) ==
    /\ lastOp' = [op |-> "verify_hash_with_public_key",
                  outcome |-> VerifyHashWithPublicKeyB64(fallback_active, signature,
                                                         hash_value, public_key_b64),
                  ret |-> 0, all |-> TRUE, warn |-> "none", rep |-> FALSE,
                  args |-> <<fallback_active, signature, hash_value, public_key_b64>>]
    /\ UNCHANGED <<envVars, serviceVars, proofVars, checkVars, notifVars, profileVars,
                   memoryShareLinks, warnVars, now, nextId>>

VerifyStoredCall(fallback_active, signature_b64, hash_value, public_key_b64) ==
    /\ lastOp' = [op |-> "verify_stored_signature",
                  outcome |-> StoredSignatureValid(fallback_active, signature_b64,
                                                   hash_value, public_key_b64),
                  ret |-> 0, all |-> TRUE, warn |-> "none", rep |-> FALSE,
                  args |-> <<fallback_active, signature_b64, hash_value, public_key_b64>>]
    /\ UNCHANGED <<envVars, serviceVars, proofVars, checkVars, notifVars, profileVars,
                   memoryShareLinks, warnVars, now, nextId>>

InitPQC == enabled = FALSE /\ missing = {} /\ InitStore

NextPQC ==
    \/ \E f \in BOOLEAN, sig \in SignatureBytes, h \in Contents,
          key \in Base64Of(KeyBytes) : VerifyCall(f, sig, h, key)
    \/ \E f \in BOOLEAN, sig \in Base64Of(SignatureBytes), h \in Contents,
          key \in Base64Of(KeyBytes) : VerifyStoredCall(f, sig, h, key)
    \/ \E f \in BOOLEAN, k \in KeyIds, h \in Contents, c \in Contents :
          SignThenVerify(f, k, h, c)

SpecPQC == InitPQC /\ [][NextPQC]_vars

----------------------------------------------------------------------------
(* PQCEngine: the engine's own key material over its lifetime *)

\* the engines construction can produce
Engines == {Setup(o, a, k) : o \in BOOLEAN, a \in BOOLEAN, k \in KeyIds}

\* sign_hash raises RuntimeError("PQC private key is not initialized.")
EngineSignRaises(e) ==
    /\ ~(e.fallback_active /\ e.private_key_fallback # NoKey)
    /\ e.private_key_oqs = NoKey

\* sign_hash, where it does not raise
EngineSign(e, hash_value) ==
    IF e.fallback_active /\ e.private_key_fallback # NoKey
    THEN [alg |-> "ed25519", key |-> e.private_key_fallback, payload |-> hash_value]
    ELSE [alg |-> "ML-DSA-65", key |-> e.private_key_oqs, payload |-> hash_value]

\* export_public_key_b64 raises RuntimeError("Public key not initialized.")
EngineExportRaises(e) ==
    /\ ~(e.fallback_active /\ e.public_key_fallback # NoKey)
    /\ e.public_key_oqs = NoKey

\* export_public_key_b64, where it does not raise
EngineExport(e) ==
    IF e.fallback_active /\ e.public_key_fallback # NoKey
    THEN B64Encode([alg |-> "ed25519", key |-> e.public_key_fallback])
    ELSE B64Encode([alg |-> "ML-DSA-65", key |-> e.public_key_oqs])

\* verify_hash: False without the active public key, else
\* verify_hash_with_public_key on the engine's own key
EngineVerify(e, signature, hash_value) ==
    IF e.fallback_active
    THEN IF e.public_key_fallback = NoKey THEN "false"
         ELSE VerifyHashWithPublicKeyB64(TRUE, signature, hash_value,
                  B64Encode([alg |-> "ed25519", key |-> e.public_key_fallback]))
    ELSE IF e.public_key_oqs = NoKey THEN "false"
         ELSE VerifyHashWithPublicKeyB64(FALSE, signature, hash_value,
                  B64Encode([alg |-> "ML-DSA-65", key |-> e.public_key_oqs]))

\* a call of an engine method: no method assigns a field of the engine
EngineOp(name, outcome, args) ==
    /\ lastOp' = [op |-> name, outcome |-> outcome, ret |-> 0, all |-> TRUE,
                  warn |-> "none", rep |-> FALSE, args |-> args]
    /\ UNCHANGED <<envVars, serviceVars, proofVars, checkVars, notifVars, profileVars,
                   memoryShareLinks, warnVars, now, nextId>>

EngineSignCall(hash_value) ==
    EngineOp("sign_hash",
             IF EngineSignRaises(engine) THEN "raised" ELSE "ok",
             <<hash_value, IF EngineSignRaises(engine) THEN JunkSignature
                           ELSE EngineSign(engine, hash_value)>>)

EngineExportCall ==
    EngineOp("export_public_key_b64",
             IF EngineExportRaises(engine) THEN "raised" ELSE "ok",
             <<IF EngineExportRaises(engine) THEN B64Encode(JunkKey)
               ELSE EngineExport(engine)>>)

EngineVerifyCall(signature, hash_value) ==
    EngineOp("verify_hash", EngineVerify(engine, signature, hash_value),
             <<signature, hash_value>>)

\* the info property
EngineInfoCall ==
    EngineOp("info", "ok", <<engine.backend, engine.fallback_active>>)

InitEngine == enabled = FALSE /\ missing = {} /\ InitData /\ engine \in Engines

NextEngine ==
    \/ \E h \in Contents : EngineSignCall(h)
    \/ EngineExportCall
    \/ \E sig \in SignatureBytes, h \in Contents : EngineVerifyCall(sig, h)
    \/ \E sig \in SignatureBytes, h \in Contents, key \in Base64Of(KeyBytes) :
          VerifyCall(engine.fallback_active, sig, h, key)
    \/ EngineInfoCall

SpecEngine == InitEngine /\ [][NextEngine]_vars

----------------------------------------------------------------------------
(* VaultCipher: AES-GCM over byte strings *)

NonceLen == 12
\* AESGCM: length of the authentication tag, and the shortest nonce accepted
TagLen == 16
MinNonceLen == 8
MaxPlain == 1
MaxEncrypts == 2

\* a byte is a tuple of numbers: <<b>> for a data byte, longer for tag bytes
DataBytes == {<<0>>, <<1>>}
OtherBytes == DataBytes \cup {<<7>>}
VaultKeys == {1, 2}

\* os.urandom(12), two of its values
Nonces == {[i \in 1..NonceLen |-> b] : b \in DataBytes}

Plaintexts == UNION {[1..n -> DataBytes] : n \in 0..MaxPlain}

RECURSIVE Flatten(_)
Flatten(bytes) == IF bytes = <<>> THEN <<>> ELSE Head(bytes) \o Flatten(Tail(bytes))

\* the key stream of a key and nonce, and its application (its own inverse)
Pad(key, nonce) == (key + Head(nonce)[1]) % 2
Mask(key, nonce, data) == [i \in 1..Len(data) |-> <<(data[i][1] + Pad(key, nonce)) % 2>>]

\* the tag: bytes that no other key, nonce or ciphertext produces
Tag(key, nonce, ciphertext) ==
    [i \in 1..TagLen |-> <<2, i, key, Len(nonce)>> \o Flatten(nonce) \o Flatten(ciphertext)]

\* AESGCM.encrypt(nonce, plaintext, None): ciphertext followed by the tag
AesGcmEncrypt(key, nonce, plaintext) ==
    Mask(key, nonce, plaintext) \o Tag(key, nonce, Mask(key, nonce, plaintext))

\* faulty variant: the tag is cut off and not compared
AesGcmDecrypt_NoTagCheck(key, nonce, data) ==
    IF Len(nonce) < MinNonceLen THEN [error |-> "ValueError", bytes |-> <<>>]
    ELSE IF Len(data) < TagLen THEN [error |-> "InvalidTag", bytes |-> <<>>]
    ELSE [error |-> "none", bytes |-> <<>>]

\* AESGCM.decrypt(nonce, data, None): ValueError for a nonce under 8 bytes,
\* InvalidTag for data shorter than a tag or a tag that does not match
AesGcmDecrypt(key, nonce, data) ==
    IF Len(nonce) < MinNonceLen THEN [error |-> "ValueError", bytes |-> <<>>]
    ELSE IF Len(data) < TagLen THEN [error |-> "InvalidTag", bytes |-> <<>>]
    ELSE LET ciphertext == SubSeq(data, 1, Len(data) - TagLen)
             tag == SubSeq(data, Len(data) - TagLen + 1, Len(data))
         IN  IF tag = Tag(key, nonce, ciphertext)
             THEN [error |-> "none", bytes |-> Mask(key, nonce, ciphertext)]
             ELSE [error |-> "InvalidTag", bytes |-> <<>>]

\* VaultCipher.encrypt with the nonce drawn: blob = nonce + ciphertext
Encrypt(key, nonce, plaintext) == nonce \o AesGcmEncrypt(key, nonce, plaintext)

\* VaultCipher.decrypt: payload[:12] is the nonce, payload[12:] the rest
Decrypt(key, payload) ==
    AesGcmDecrypt(key, SubSeq(payload, 1, Min(NonceLen, Len(payload))),
                  SubSeq(payload, NonceLen + 1, Len(payload)))

\* a blob with one byte altered, and a blob cut short
Altered(blob) ==
    {[blob EXCEPT ![i] = v] : i \in 1..Len(blob), v \in OtherBytes} \ {blob}
Truncated(blob) == {SubSeq(blob, 1, n) : n \in 0..(Len(blob) - 1)}

VaultOp(name, result, key, plaintext, payload, damage) ==
    [op |-> name, outcome |-> result.error, ret |-> 0, all |-> TRUE, warn |-> "none",
     rep |-> FALSE, bytes |-> result.bytes, key |-> key, plaintext |-> plaintext,
     payload |-> payload, damage |-> damage]

EncryptCall(key, plaintext) ==
    /\ Len(nonceLog) < MaxEncrypts
    /\ \E nonce \in Nonces :
          /\ lastOp' = VaultOp("encrypt", [error |-> "none", bytes |-> <<>>], key,
                               plaintext, Encrypt(key, nonce, plaintext), "none")
          /\ nonceLog' = Append(nonceLog, <<key, nonce>>)
    /\ UNCHANGED <<envVars, engine, worker, connections, gone, bcast, proofVars, checkVars, notifVars,
                   profileVars, memoryShareLinks, warnVars, now, nextId>>

\* decrypt, with some key, of the blob last encrypted: as it is, with a
\* byte altered, or cut short
DecryptCall(key) ==
    /\ lastOp.op = "encrypt"
    /\ \E damage \in {"none", "altered", "truncated"} :
       \E payload \in (CASE damage = "none" -> {lastOp.payload}
                         [] damage = "altered" -> Altered(lastOp.payload)
                         [] damage = "truncated" -> Truncated(lastOp.payload)) :
          lastOp' = VaultOp("decrypt", Decrypt(key, payload), lastOp.key, lastOp.plaintext,
                            payload, IF key = lastOp.key THEN damage
                                     ELSE IF damage = "none" THEN "other key" ELSE "both")
    /\ UNCHANGED <<envVars, serviceVars, proofVars, checkVars, notifVars, profileVars,
                   memoryShareLinks, warnVars, now, nextId>>

InitVault == enabled = FALSE /\ missing = {} /\ InitStore

NextVault ==
    \/ \E k \in VaultKeys, p \in Plaintexts : EncryptCall(k, p)
    \/ \E k \in VaultKeys : DecryptCall(k)

SpecVault == InitVault /\ [][NextVault]_vars

----------------------------------------------------------------------------
(* hasher.generate_hash *)

MaxData == 4
MaxChunk == 5

ByteStrings == UNION {[1..n -> {0, 1}] : n \in 0..MaxData}

\* faulty variant: the last byte of every full chunk is left out
Slice_DropsLast(data, index, chunk_size) ==
    SubSeq(data, index + 1, Min(index + chunk_size - 1, Len(data)))

\* data[index : index + chunk_size], index counted from 0
Slice(data, index, chunk_size) ==
    SubSeq(data, index + 1, Min(index + chunk_size, Len(data)))

RECURSIVE Absorbed(_, _, _, _)
\* the loop over range(0, len(data), chunk_size): what sha3.update has been
\* given, in order, once the loop is over (updates concatenate)
Absorbed(data, index, chunk_size, fed) ==
    IF index >= Len(data) THEN fed
    ELSE Absorbed(data, index + chunk_size, chunk_size,
                  fed \o Slice(data, index, chunk_size))

\* sha3.hexdigest() of what was absorbed
GenerateHash(data, chunk_size) == Digest(Absorbed(data, 0, chunk_size, <<>>))

HashCall(data, chunk_size) ==
    /\ lastOp' = [op |-> "generate_hash", outcome |-> "ok", ret |-> 0, all |-> TRUE,
                  warn |-> "none", rep |-> FALSE, data |-> data,
                  chunk_size |-> chunk_size, digest |-> GenerateHash(data, chunk_size)]
    /\ UNCHANGED <<envVars, serviceVars, proofVars, checkVars, notifVars, profileVars,
                   memoryShareLinks, warnVars, now, nextId>>

InitHash == enabled = FALSE /\ missing = {} /\ InitStore

NextHash == \E data \in ByteStrings, chunk_size \in 1..MaxChunk : HashCall(data, chunk_size)

SpecHash == InitHash /\ [][NextHash]_vars

----------------------------------------------------------------------------
(* p2p_node.ConnectionManager; every method body runs under _lock *)

Sockets == {"w1", "w2", "w3"}

\* list.remove: the first occurrence goes
RECURSIVE RemoveFirst(_, _)
RemoveFirst(list, item) ==
    IF list = <<>> THEN <<>>
    ELSE IF Head(list) = item THEN Tail(list)
    ELSE <<Head(list)>> \o RemoveFirst(Tail(list), item)

\* faulty variant: the dead connections stay registered
RemoveDead_KeepsAll(list, dead) == list

RECURSIVE RemoveDead(_, _)
\* for websocket in dead_connections: self._connections.remove(websocket)
RemoveDead(list, dead) ==
    IF dead = <<>> THEN list
    ELSE RemoveDead(RemoveFirst(list, Head(dead)), Tail(dead))

WsOp(name, websocket) ==
    [op |-> name, outcome |-> "ok", ret |-> 0, all |-> TRUE, warn |-> "none",
     rep |-> FALSE, websocket |-> websocket]

\* proofs_socket: a new websocket is accepted and registered
Connect(websocket) ==
    /\ ~bcast.active
    /\ websocket \notin SeqToSet(connections)
    /\ websocket \notin {g[1] : g \in gone}
    /\ connections' = Append(connections, websocket)
    /\ lastOp' = WsOp("connect", websocket)
    /\ UNCHANGED <<envVars, engine, worker, nonceLog, gone, bcast, proofVars, checkVars, notifVars,
                   profileVars, memoryShareLinks, warnVars, now, nextId>>

\* proofs_socket, on the end of the connection: removed if still registered
Disconnect(websocket) ==
    /\ ~bcast.active
    /\ websocket \in SeqToSet(connections) \/ <<websocket, "dead">> \in gone
    /\ <<websocket, "disconnect">> \notin gone
    /\ connections' = IF websocket \in SeqToSet(connections)
                      THEN RemoveFirst(connections, websocket) ELSE connections
    /\ gone' = gone \cup {<<websocket, "disconnect">>}
    /\ lastOp' = WsOp("disconnect", websocket)
    /\ UNCHANGED <<envVars, engine, worker, nonceLog, bcast, proofVars, checkVars, notifVars,
                   profileVars, memoryShareLinks, warnVars, now, nextId>>

\* broadcast takes the lock
BeginBroadcast ==
    /\ ~bcast.active
    /\ bcast' = [active |-> TRUE, index |-> 1, dead |-> <<>>, sent |-> <<>>]
    /\ lastOp' = WsOp("broadcast", "")
    /\ UNCHANGED <<envVars, engine, worker, nonceLog, connections, gone, proofVars, checkVars, notifVars,
                   profileVars, memoryShareLinks, warnVars, now, nextId>>

\* one turn of the loop: send_json to the next connection succeeds or raises
Send(failed) ==
    /\ bcast.active
    /\ bcast.index <= Len(connections)
    /\ bcast' = IF failed
                THEN [bcast EXCEPT !.index = @ + 1,
                                   !.dead = Append(@, connections[bcast.index])]
                ELSE [bcast EXCEPT !.index = @ + 1,
                                   !.sent = Append(@, connections[bcast.index])]
    /\ lastOp' = WsOp(IF failed THEN "send failed" ELSE "send", connections[bcast.index])
    /\ UNCHANGED <<envVars, engine, worker, nonceLog, connections, gone, proofVars, checkVars, notifVars,
                   profileVars, memoryShareLinks, warnVars, now, nextId>>

\* after the loop the dead connections are removed and the lock released
EndBroadcast ==
    /\ bcast.active
    /\ bcast.index > Len(connections)
    /\ connections' = RemoveDead(connections, bcast.dead)
    /\ gone' = gone \cup {<<d, "dead">> : d \in SeqToSet(bcast.dead)}
    /\ bcast' = Idle
    /\ lastOp' = WsOp("broadcast done", "")
    /\ UNCHANGED <<envVars, engine, worker, nonceLog, proofVars, checkVars, notifVars,
                   profileVars, memoryShareLinks, warnVars, now, nextId>>

InitBroadcast == enabled = FALSE /\ missing = {} /\ InitStore

NextBroadcast ==
    \/ \E w \in Sockets : Connect(w)
    \/ \E w \in Sockets : Disconnect(w)
    \/ BeginBroadcast
    \/ \E failed \in BOOLEAN : Send(failed)
    \/ EndBroadcast

SpecBroadcast == InitBroadcast /\ [][NextBroadcast]_vars

----------------------------------------------------------------------------
(* Uploads and shared re-checks, with and without bytes *)

NextValidate ==
    \/ \E o \in Owners, c \in UploadContents \cup {EmptyFile} : Upload(o, c)
    \/ \E id \in Ids, o \in Owners, t \in Tokens : EnableShareLink(id, o, t)
    \/ \E t \in Tokens, c \in Contents \cup {EmptyFile} : VerifySharedUpload(t, c)

SpecValidate == InitVerify /\ [][NextValidate]_vars

----------------------------------------------------------------------------
(* SupabaseRepository.download_vault_blob *)

\* the blob of a proof, if any: nothing without a remote client, else what
\* the bucket holds under the proof's storage path
DownloadVaultBlob(verification_id) ==
    IF ~enabled THEN {}
    ELSE {b \in blobs : b = verification_id}

----------------------------------------------------------------------------
(* A process that stops between the steps of an operation *)

\* faulty variant: the record is inserted before the blob is uploaded
UploadSteps_RecordFirst == <<"record", "blob">>

\* main.upload_and_sign_file: upload_vault_blob, then insert_proof
UploadSteps == <<"blob", "record">>

\* upload_and_sign_file stopped after "done" of its two store steps; nothing
\* is undone
UploadCrash(owner_email, content, done) ==
    LET steps == {UploadSteps[i] : i \in 1..done}
        proof == NewProof(nextId, owner_email, content)
    IN  /\ ~IsEmpty(content)
        /\ nextId <= MaxProofs
        /\ (~enabled => owner_email = Anonymous)
        /\ blobs' = IF enabled /\ "blob" \in steps THEN blobs \cup {nextId} ELSE blobs
        /\ IF "record" \notin steps THEN UNCHANGED <<remote, ledgerA, ledgerB>>
           ELSE IF enabled THEN remote' = remote \cup {proof} /\ UNCHANGED <<ledgerA, ledgerB>>
           ELSE /\ ledgerA' = AppendLocalLedgers(proof)[1]
                /\ ledgerB' = AppendLocalLedgers(proof)[2]
                /\ UNCHANGED remote
        /\ nextId' = nextId + 1
        /\ lastOp' = Op("upload crash", "crashed", done, 0, 0, "none")
        /\ UNCHANGED <<envVars, serviceVars, checkVars, notifVars, profileVars,
                       memoryShareLinks, warnVars, now>>

\* SupabaseRepository.delete_proof stopped after delete_vault_blob, before
\* the record is removed
DeleteCrash(verification_id, owner_email) ==
    LET found == GetProof(verification_id)
        allowed == {p \in found : DeleteAuthorized(p, owner_email)}
    IN  /\ allowed # {}
        /\ \E removed \in BOOLEAN :
              blobs' = BlobsAfterDelete(blobs, verification_id, removed)
        /\ lastOp' = Op("delete_proof crash", "crashed", 1, 0, 0, "none")
        /\ UNCHANGED <<envVars, serviceVars, remote, ledgerA, ledgerB, checkVars, notifVars,
                       profileVars, memoryShareLinks, warnVars, now, nextId>>

\* cleanup_expired_proofs, remote branch, stopped inside the loop: the rows
\* of "done" are gone with their blobs, row r has lost its blob only
CleanupCrash(limit) ==
    /\ enabled
    /\ ~SchemaError("autodelete")
    /\ \E rows \in RemoteExpiredRows(limit) :
       \E r \in rows :
       \E done \in SUBSET (rows \ {r}) :
          /\ blobs' = blobs \ ({d.verification_id : d \in done} \cup {r.verification_id})
          /\ remote' = {p \in remote : p.verification_id \notin
                                          {d.verification_id : d \in done}}
    /\ lastOp' = Op("cleanup crash", "crashed", 0, 0, 0, "none")
    /\ UNCHANGED <<envVars, serviceVars, ledgerA, ledgerB, checkVars, notifVars,
                   profileVars, memoryShareLinks, warnVars, now, nextId>>

NextCrash ==
    \/ Tick
    \/ \E o \in Owners, c \in UploadContents : Upload(o, c)
    \/ \E id \in Ids, o \in Owners, t \in Tokens : EnableShareLink(id, o, t)
    \/ \E t \in Tokens, c \in Contents : VerifySharedUpload(t, c)
    \/ \E id \in Ids, o \in Owners : DeleteProof(id, o)
    \/ \E limit \in 1..MaxProofs : CleanupExpiredProofs(limit)
    \/ \E o \in Owners, c \in UploadContents, done \in 0..2 : UploadCrash(o, c, done)
    \/ \E id \in Ids, o \in Owners : DeleteCrash(id, o)
    \/ \E limit \in 1..MaxProofs : CleanupCrash(limit)

SpecCrash == InitVerify /\ [][NextCrash]_vars

----------------------------------------------------------------------------
(* Local-ledger writers next to the list endpoint's worker thread *)

\* main.list_proofs is a plain function, which the server runs in a worker
\* thread; every other handler is a coroutine of the event loop. The
\* repository takes no lock, so a repository call of the event loop can run
\* between any two file operations of the worker. Path.write_text opens the
\* file for writing, which empties it, and then writes the content.

\* the ledger files the worker has opened for writing and not yet written
OpenForWrite ==
    IF worker.pc = "writeA" THEN {"A"}
    ELSE IF worker.pc = "writeB" THEN {"B"}
    ELSE {}

\* cleanup_expired_proofs, local branch up to "if removed > 0": the ledger is
\* read and filtered; with nothing to remove the call returns
WorkerRead ==
    /\ ~enabled
    /\ worker.pc = "idle"
    /\ LET proofs == ReadLocalProofs
       IN  /\ worker' = IF LocalRemoved(proofs) > 0
                        THEN [pc |-> "openA", before |-> <<>>, kept |-> LocalKept(proofs)]
                        ELSE Resting
           /\ lastOp' = Op("cleanup read", "ok", LocalRemoved(proofs), 0, 0, "none")
    /\ UNCHANGED <<envVars, engine, nonceLog, connections, gone, bcast, proofVars, checkVars,
                   notifVars, profileVars, memoryShareLinks, warnVars, now, nextId>>

\* _overwrite_local_ledgers, write_text on one file, first half: the file is
\* opened and is empty, which _read_local_proofs reads as []
WorkerOpen ==
    /\ worker.pc \in {"openA", "openB"}
    /\ IF worker.pc = "openA"
       THEN /\ ledgerA' = <<>>
            /\ worker' = [worker EXCEPT !.pc = "writeA", !.before = ledgerA]
            /\ UNCHANGED ledgerB
       ELSE /\ ledgerB' = <<>>
            /\ worker' = [worker EXCEPT !.pc = "writeB", !.before = ledgerB]
            /\ UNCHANGED ledgerA
    /\ lastOp' = Op("cleanup open", "ok", 0, 0, 0, "none")
    /\ UNCHANGED <<envVars, engine, nonceLog, connections, gone, bcast, remote, blobs, checkVars,
                   notifVars, profileVars, memoryShareLinks, warnVars, now, nextId>>

\* write_text, second half: the kept records are written; after file B the
\* call returns
WorkerWrite ==
    /\ worker.pc \in {"writeA", "writeB"}
    /\ IF worker.pc = "writeA"
       THEN /\ ledgerA' = OverwriteLocalLedger(worker.kept)
            /\ worker' = [worker EXCEPT !.pc = "openB"]
            /\ UNCHANGED ledgerB
       ELSE /\ ledgerB' = OverwriteLocalLedger(worker.kept)
            /\ worker' = Resting
            /\ UNCHANGED ledgerA
    /\ lastOp' = Op("cleanup write", "ok", 0, 0, 0, "none")
    /\ UNCHANGED <<envVars, engine, nonceLog, connections, gone, bcast, remote, blobs, checkVars,
                   notifVars, profileVars, memoryShareLinks, warnVars, now, nextId>>

InitRace == enabled = FALSE /\ missing = {} /\ InitStore

\* the event loop's writers are taken between the worker's file operations
\* while the worker has no file open; its reader at any point
NextRace ==
    \/ Tick
    \/ OpenForWrite = {} /\ \E c \in UploadContents : Upload(Anonymous, c)
    \/ OpenForWrite = {} /\ \E id \in Ids, t \in Tokens : EnableShareLink(id, Anonymous, t)
    \/ OpenForWrite = {} /\ \E t \in Tokens, c \in Contents : VerifySharedUpload(t, c)
    \/ OpenForWrite = {} /\ \E id \in Ids : DeleteProof(id, Anonymous)
    \/ \E id \in Ids, c \in Contents \cup {NoFile} : VerifyProof(id, Anonymous, c)
    \/ WorkerRead
    \/ WorkerOpen
    \/ WorkerWrite

SpecRace == InitRace /\ [][NextRace]_vars

----------------------------------------------------------------------------
(* main.create_share_link *)

\* the share tokens in use: stored on a proof or kept in the in-memory links
TokensInUse ==
    {p.share_token : p \in StoredProofs} \cup {l[1] : l \in memoryShareLinks}

\* share_token = proof.get("share_token") or secrets.token_urlsafe(18): the
\* token of the record read, else a random token (one not in use)
ShareTokenFor(proof) ==
    IF proof.share_token # NoToken THEN {proof.share_token} ELSE Tokens \ TokensInUse

\* the caller must be authenticated (never so in local mode), the proof
\* must exist and be the caller's; then enable_share_link runs
CreateShareLink(verification_id, user) ==
    LET found == GetProof(verification_id)
    IN  IF ~Authenticated(user) THEN Refused("create_share_link", "unauthenticated")
        ELSE IF Refusal(found, user, TRUE) # "ok"
        THEN Refused("create_share_link", Refusal(found, user, TRUE))
        ELSE \E proof \in found : \E share_token \in ShareTokenFor(proof) :
                EnableShareLink(verification_id, user, share_token)

\* main.delete_proof: the caller must be authenticated, the proof must
\* exist and be the caller's; then the repository deletes it
DeleteProofHandler(verification_id, user) ==
    LET found == GetProof(verification_id)
    IN  IF ~Authenticated(user) THEN Refused("delete_proof_request", "unauthenticated")
        ELSE IF Refusal(found, user, TRUE) # "ok"
        THEN Refused("delete_proof_request", Refusal(found, user, TRUE))
        ELSE DeleteProof(verification_id, user)

NextAccess ==
    \/ \E o \in Owners, c \in UploadContents : Upload(o, c)
    \/ \E id \in Ids, u \in Owners : DeleteProofHandler(id, u)
    \/ \E id \in Ids, u \in Owners : CreateShareLink(id, u)
    \/ \E id \in Ids, o \in Owners, c \in Contents \cup {NoFile} : VerifyProof(id, o, c)

SpecAccess == InitVerify /\ [][NextAccess]_vars

InitShare ==
    /\ enabled \in BOOLEAN
    /\ missing \in {{}, {"share"}}
    /\ (~enabled => missing = {})
    /\ InitStore

NextShare ==
    \/ \E o \in Owners, c \in UploadContents : Upload(o, c)
    \/ \E id \in Ids, u \in Users : CreateShareLink(id, u)
    \/ \E t \in Tokens : SharedProofDetails(t)
    \/ \E id \in Ids, o \in Owners : DeleteProof(id, o)

SpecShare == InitShare /\ [][NextShare]_vars

----------------------------------------------------------------------------
(* main.resolve_user_context and the endpoints behind require_authenticated_user *)

\* the bearer credentials of a request: none, the token of a signed-in
\* user, a token the auth service does not know
NoCredentials == "none"
AliceToken == "token of alice@aegis.io"
Credentials == {NoCredentials, AliceToken, "stale token"}

\* SupabaseRepository.get_user_from_token: nobody without a client
GetUserFromToken(access_token) ==
    IF enabled /\ access_token = AliceToken THEN {"alice@aegis.io"} ELSE {}

\* faulty variant: the token is believed without asking the auth service
ResolveUserContext_TrustsToken(credentials) ==
    IF credentials = AliceToken
    THEN [email |-> "alice@aegis.io", is_authenticated |-> TRUE, raised |-> FALSE]
    ELSE [email |-> Anonymous, is_authenticated |-> FALSE, raised |-> FALSE]

\* resolve_user_context: anonymous without credentials or without the
\* remote backend, 401 (raised) for a token that names nobody
ResolveUserContext(credentials) ==
    IF credentials = NoCredentials \/ ~enabled
    THEN [email |-> Anonymous, is_authenticated |-> FALSE, raised |-> FALSE]
    ELSE IF GetUserFromToken(credentials) = {}
    THEN [email |-> Anonymous, is_authenticated |-> FALSE, raised |-> TRUE]
    ELSE [email |-> CHOOSE u \in GetUserFromToken(credentials) : TRUE,
          is_authenticated |-> TRUE, raised |-> FALSE]

\* require_authenticated_user lets the request through
SignedIn(credentials) ==
    /\ ~ResolveUserContext(credentials).raised
    /\ ResolveUserContext(credentials).is_authenticated

\* the identity handed to the handler
UserOf(credentials) == ResolveUserContext(credentials).email

\* HTTP 401 raised by the dependency, before the handler's body
Unauthenticated(name, credentials) ==
    /\ lastOp' = [op |-> name, outcome |-> "unauthenticated", ret |-> 0, all |-> TRUE,
                  warn |-> "none", rep |-> FALSE, credentials |-> credentials]
    /\ UNCHANGED <<envVars, serviceVars, proofVars, checkVars, notifVars, profileVars,
                   memoryShareLinks, warnVars, now, nextId>>

\* main.get_my_profile
GetMyProfile(credentials) ==
    IF ~SignedIn(credentials) THEN Unauthenticated("profile request", credentials)
    ELSE GetOrCreateProfile(UserOf(credentials))

\* main.update_my_profile, with or without a (valid) handle in the payload
UpdateMyProfile(credentials, handle) ==
    IF ~SignedIn(credentials) THEN Unauthenticated("profile update request", credentials)
    ELSE UpdateProfile(UserOf(credentials), handle)

\* main.create_share_link behind its dependency
CreateShareLinkRequest(credentials, verification_id) ==
    IF ~SignedIn(credentials) THEN Unauthenticated("share request", credentials)
    ELSE CreateShareLink(verification_id, UserOf(credentials))

\* main.delete_proof behind its dependency
DeleteProofRequest(credentials, verification_id) ==
    IF ~SignedIn(credentials) THEN Unauthenticated("delete request", credentials)
    ELSE DeleteProofHandler(verification_id, UserOf(credentials))

\* limit of the cleanup that the notifications endpoint runs first
NotificationsCleanupLimit == 25

\* main.list_notifications: cleanup_expired_proofs(limit=25), then the
\* caller's notifications (remote store with the complete schema)
ListNotificationsRequest(credentials) ==
    IF ~SignedIn(credentials) THEN Unauthenticated("notifications request", credentials)
    ELSE /\ ~SchemaError("autodelete") /\ ~SchemaError("notifications")
         /\ \E rows \in RemoteExpiredRows(NotificationsCleanupLimit) :
            \E failed \in SUBSET {r.verification_id : r \in rows} :
               /\ blobs' = blobs \ ({r.verification_id : r \in rows} \ failed)
               /\ remote' = {p \in remote :
                                p.verification_id \notin {r.verification_id : r \in rows}}
         /\ lastOp' = Op("list_notifications", "ok",
                         Len(ListNotificationsRows(UserOf(credentials))), 0, 0, "none")
         /\ UNCHANGED <<envVars, serviceVars, ledgerA, ledgerB, checkVars, notifVars,
                        profileVars, memoryShareLinks, warnVars, now, nextId>>

\* main.mark_notification_as_read behind its dependency
MarkNotificationReadRequest(credentials, notification_id) ==
    IF ~SignedIn(credentials) THEN Unauthenticated("mark read request", credentials)
    ELSE MarkNotificationRead(notification_id, UserOf(credentials))

NextAuth ==
    \/ Tick
    \/ \E c \in UploadContents, cr \in Credentials :
          ~ResolveUserContext(cr).raised /\ Upload(UserOf(cr), c)
    \/ \E t \in Tokens, c \in Contents : VerifySharedUpload(t, c)
    \/ \E limit \in 1..MaxProofs : CleanupExpiredProofs(limit)
    \/ \E cr \in Credentials : GetMyProfile(cr)
    \/ \E cr \in Credentials, h \in HandleUpdates : UpdateMyProfile(cr, h)
    \/ \E cr \in Credentials, id \in Ids : CreateShareLinkRequest(cr, id)
    \/ \E cr \in Credentials, id \in Ids : DeleteProofRequest(cr, id)
    \/ \E cr \in Credentials : ListNotificationsRequest(cr)
    \/ \E cr \in Credentials, n \in 1..MaxChecks : MarkNotificationReadRequest(cr, n)

\* the process runs without a remote store
InitAuth == enabled = FALSE /\ missing = {} /\ InitStore

SpecAuth == InitAuth /\ [][NextAuth]_vars

----------------------------------------------------------------------------
(* Properties of the proof store *)

\* the stored records of one verification_id
StoredOf(verification_id) == {p \in StoredProofs : p.verification_id = verification_id}

\* all VerificationCheck rows, remote and in memory, of one verification_id
ChecksOf(verification_id) ==
    {<<"remote", i>> : i \in {j \in 1..Len(remoteChecks) :
                                remoteChecks[j].verification_id = verification_id}}
    \cup {<<"local", i>> : i \in {j \in 1..Len(localChecks) :
                                    localChecks[j].verification_id = verification_id}}

\* this step appended a VerificationCheck row for verification_id, that is,
\* a record_external_check on that proof completed
CheckRecorded(verification_id) ==
    \/ /\ Len(remoteChecks') = Len(remoteChecks) + 1
       /\ remoteChecks'[Len(remoteChecks')].verification_id = verification_id
    \/ /\ Len(localChecks') = Len(localChecks) + 1
       /\ localChecks'[Len(localChecks')].verification_id = verification_id

IsPrefix(s, t) == Len(s) <= Len(t) /\ SubSeq(t, 1, Len(s)) = s

\* C1 (as claimed): a completed record_external_check on a stored proof
\* that has no auto_delete_at stores auto_delete_at = time of the check +
\* auto_delete_after_hours, and one on a proof that has an auto_delete_at
\* leaves the stored value as it is, in every store mode.
C1_AutoDeleteScheduledOnce ==
    [][\A v \in Ids : CheckRecorded(v) =>
          \A p \in StoredOf(v) : \E q \in StoredOf(v)' :
              q.auto_delete_at = IF p.auto_delete_at = NoTime
                                 THEN now + AutoDeleteAfterHours
                                 ELSE p.auto_delete_at]_vars

\* C2 (as claimed): the stored external_check_count of every stored proof
\* equals the number of VerificationCheck rows recorded for it.
C2_CountEqualsCheckRows ==
    \A p \in StoredProofs :
        p.external_check_count = Cardinality(ChecksOf(p.verification_id))

\* C3: the check history only grows by appending: no step changes or
\* removes a row of either check list, and every completed shared
\* verification, VERIFIED or TAMPERED, appends exactly one row.
C3_ChecksAppendOnly ==
    [][/\ IsPrefix(remoteChecks, remoteChecks')
       /\ IsPrefix(localChecks, localChecks')
       /\ (lastOp'.op = "verify_shared_upload" /\ lastOp'.outcome = "ok")
            => Len(remoteChecks') + Len(localChecks')
                 = Len(remoteChecks) + Len(localChecks) + 1
       /\ lastOp'.op # "verify_shared_upload"
            => remoteChecks' = remoteChecks /\ localChecks' = localChecks]_vars

\* C3 witness: a VERIFIED and a TAMPERED check are on record, one of them
\* for a proof that has since been removed from the store.
C3_Witness ==
    LET rows == SeqToSet(remoteChecks) \cup SeqToSet(localChecks)
    IN  /\ {r.status : r \in rows} = {"VERIFIED", "TAMPERED"}
        /\ \E r \in rows : StoredOf(r.verification_id) = {}
        /\ lastOp.op \in {"delete_proof", "cleanup_expired_proofs"}

\* C4: delete_proof by a caller who does not own the stored proof is
\* rejected and changes nothing: get_proof still returns the record, no
\* blob is removed, no share link is dropped.
C4_NonOwnerDeleteChangesNothing ==
    [][\A id \in Ids, o \in Owners :
          (/\ GetProof(id) # {}
           /\ \A p \in GetProof(id) : p.owner_email # o
           /\ DeleteProof(id, o))
          => /\ lastOp'.outcome = "none"
             /\ GetProof(id)' = GetProof(id)
             /\ UNCHANGED <<remote, ledgerA, ledgerB, blobs, memoryShareLinks>>]_vars

\* C4 witness: a delete_proof was just rejected although every
\* verification_id is stored, so it was rejected for its caller.
C4_Witness ==
    /\ lastOp.op = "delete_proof"
    /\ lastOp.outcome = "none"
    /\ \A id \in Ids : GetProof(id) # {}

\* C5 (as claimed): delete_proof by the owner removes the vault blob, the
\* record and every share-token mapping to it.
C5_OwnerDeleteRemovesAll ==
    [][\A id \in Ids, o \in Owners :
          (/\ \E p \in GetProof(id) : p.owner_email = o
           /\ DeleteProof(id, o))
          => /\ id \notin blobs'
             /\ GetProof(id)' = {}
             /\ \A t \in Tokens : \A p \in GetProofByShareToken(t)' :
                    p.verification_id # id
             /\ \A l \in memoryShareLinks' : l[2] # id]_vars

\* C6: cleanup_expired_proofs removes only records whose auto_delete_at is
\* set and has passed, and returns the number of records it removed.
C6_CleanupRemovesOnlyExpired ==
    [][lastOp'.op = "cleanup_expired_proofs" =>
          /\ StoredProofs' \subseteq StoredProofs
          /\ \A p \in StoredProofs \ StoredProofs' :
                p.auto_delete_at # NoTime /\ p.auto_delete_at <= now
          /\ lastOp'.ret = Cardinality(StoredProofs) - Cardinality(StoredProofs')]_vars

\* C6 witness: a cleanup removed a record and kept one with no
\* auto_delete_at or with one still in the future.
C6_Witness ==
    /\ lastOp.op = "cleanup_expired_proofs"
    /\ lastOp.ret >= 1
    /\ \E p \in StoredProofs : p.auto_delete_at = NoTime \/ p.auto_delete_at > now

\* C7 (as claimed): one cleanup_expired_proofs(limit) removes at most
\* limit records, in local-ledger mode and in remote mode.
C7_CleanupBoundedByLimit ==
    [][\A limit \in 1..MaxProofs :
          CleanupExpiredProofs(limit)
          => Cardinality(StoredProofs) - Cardinality(StoredProofs') <= limit]_vars

\* C8: a cleanup that directly follows a cleanup which had no more expired
\* records than its limit (no time elapsed, no write in between) returns 0
\* and leaves the store, both ledgers and the blobs unchanged.
C8_CleanupIdempotent ==
    [][(/\ lastOp.op = "cleanup_expired_proofs"
        /\ lastOp.all
        /\ lastOp'.op = "cleanup_expired_proofs")
       => /\ lastOp'.ret = 0
          /\ UNCHANGED <<remote, ledgerA, ledgerB, blobs, memoryShareLinks>>]_vars

\* C8 witness: a cleanup returned 0 right after a cleanup that removed
\* every expired record.
C8_Witness ==
    /\ lastOp.op = "cleanup_expired_proofs"
    /\ lastOp.rep
    /\ lastOp.ret = 0

----------------------------------------------------------------------------
(* Properties of the schema fallback *)

\* some operation of feature f has detected the schema incompatibility
FellBack(f) == warningCache \cap WarnKeysOf(f) # {}

\* this step left what the remote database holds for feature f as it was:
\* its table, or its columns of the integrity_proofs rows that remain
RemoteUntouched(f) ==
    CASE f = "profiles" -> remoteProfiles' = remoteProfiles
      [] f = "notifications" -> remoteNotifs' = remoteNotifs
      [] f = "checks" -> remoteChecks' = remoteChecks
      [] f = "share" ->
            \A p \in remote : \A q \in remote' :
                q.verification_id = p.verification_id
                    => q.share_token = p.share_token /\ q.share_enabled = p.share_enabled
      [] f = "autodelete" ->
            \A p \in remote : \A q \in remote' :
                q.verification_id = p.verification_id
                    => /\ q.external_check_count = p.external_check_count
                       /\ q.auto_delete_at = p.auto_delete_at

\* the number of warnings logged so far for the keys in keys
RECURSIVE WarningsLogged(_)
WarningsLogged(keys) ==
    IF keys = {} THEN 0
    ELSE LET k == CHOOSE x \in keys : TRUE
         IN  warnings[k] + WarningsLogged(keys \ {k})

\* what was written for feature f while it fell back is what reads return:
\* a substitute profile is the one get_or_create_profile finds, substitute
\* notifications are listed, an in-memory share link resolves to its proof,
\* and the check count of a stored proof covers its recorded checks
SubstituteVisible(f) ==
    CASE f = "profiles" ->
            \A u \in Users : (\E p \in localProfiles : p.email = u) =>
                ProfilesAfterGetOrCreate(<<remoteProfiles, localProfiles>>, u)
                    = <<remoteProfiles, localProfiles>>
      [] f = "notifications" ->
            \A n \in SeqToSet(localNotifs) :
                \E m \in SeqToSet(ListNotificationsRows(n.owner_email)) : m.id = n.id
      [] f = "share" ->
            \A l \in memoryShareLinks :
                GetProof(l[2]) # {} =>
                    \E p \in GetProofByShareToken(l[1]) : p.verification_id = l[2]
      [] f = "checks" -> TRUE
      [] f = "autodelete" ->
            \A p \in StoredProofs :
                /\ p.external_check_count = Cardinality(ChecksOf(p.verification_id))
                /\ p.external_check_count > 0 => p.auto_delete_at # NoTime

\* C9 (as claimed): once a feature fell back, no later step writes the
\* remote table or columns of that feature, and what was written to its
\* substitute stays visible to later reads.
C9_FallbackSticky ==
    [][\A f \in Features : FellBack(f) => RemoteUntouched(f) /\ SubstituteVisible(f)']_vars

C11_ListFallsBackQuietly ==
    [][\A o \in Users :
          (SchemaError("notifications") /\ ListNotifications(o))
          => /\ lastOp'.outcome = "ok"
             /\ lastOp'.ret = Cardinality({i \in 1..Len(localNotifs) :
                                              localNotifs[i].owner_email = o})
             /\ localNotifs = <<>> => lastOp'.ret = 0
             /\ warnings'["user_notifications_list"] = 1]_vars

\* C11 witness: a repeated list_notifications, its warning already logged,
\* returned in-memory notifications while the table is missing.
C11_Witness ==
    /\ lastOp.op = "list_notifications"
    /\ lastOp.warn = "suppressed"
    /\ lastOp.ret >= 1
    /\ "notifications" \in missing

C13_GetOrCreateIdempotent ==
    [][\A u \in Users :
          (/\ \E p \in remoteProfiles \cup localProfiles : p.email = u
           /\ GetOrCreateProfile(u))
          => /\ UNCHANGED <<remoteProfiles, localProfiles>>
             /\ ProfileOf(u)' \subseteq remoteProfiles \cup localProfiles
             /\ ProfileOf(u)' # {}
             /\ Cardinality({p \in remoteProfiles' \cup localProfiles' : p.email = u}) <= 1]_vars

\* C14 (as claimed): update_profile changes the handle only when the
\* update carries one, keeps created_at, and leaves the profile with
\* updated_at = the time of the call, whatever the update and the mode.
C14_UpdateRefreshesUpdatedAt ==
    [][\A u \in Users, h \in HandleUpdates :
          UpdateProfile(u, h)
          => \A q \in ProfileOf(u)' :
                /\ q.updated_at = now
                /\ h # Null => q.handle = h
                /\ \A p \in ProfileOf(u) :
                      /\ q.created_at = p.created_at
                      /\ h = Null => q.handle = p.handle]_vars

\* C15: whatever get_proof_by_share_token returns for a token is a proof
\* that is in the store now, is handed back with that token and
\* share_enabled true, and has that token recorded for it by
\* enable_share_link (in its stored share fields or in the in-memory
\* links); the empty token finds nothing.
C15_DiscoverableOnlyWhileShared ==
    /\ GetProofByShareToken(NoToken) = {}
    /\ \A t \in Tokens : \A p \in GetProofByShareToken(t) :
          /\ p.share_enabled
          /\ p.share_token = t
          /\ GetProof(p.verification_id) # {}
          /\ \/ \E q \in StoredProofs : /\ q.verification_id = p.verification_id
                                         /\ q.share_token = t
                                         /\ q.share_enabled
             \/ <<t, p.verification_id>> \in memoryShareLinks

\* C15 witness: after a shared verification, one token resolves through
\* the in-memory links and another resolves to nothing while a proof that
\* was never shared is stored.
C15_Witness ==
    /\ lastOp.op = "verify_shared_upload"
    /\ lastOp.outcome = "ok"
    /\ \E t \in Tokens : /\ GetProofByShareToken(t) # {}
                         /\ \E l \in memoryShareLinks : l[1] = t
    /\ \E t \in Tokens : GetProofByShareToken(t) = {}
    /\ \E p \in StoredProofs : \A t \in Tokens :
          \A q \in GetProofByShareToken(t) : q.verification_id # p.verification_id

\* the share tokens recorded for a proof, in its stored share fields or in
\* the in-memory links
ShareTokensOf(verification_id) ==
    {p.share_token : p \in {q \in StoredOf(verification_id) : q.share_enabled}}
    \cup {l[1] : l \in {m \in memoryShareLinks : m[2] = verification_id}}

\* C16 (as claimed): every proof has at most one share token and every
\* share token belongs to at most one verification_id, with stored share
\* columns and with in-memory share links.
C16_ShareTokensOneToOne ==
    /\ \A id \in Ids : Cardinality(ShareTokensOf(id)) <= 1
    /\ \A t \in Tokens : Cardinality({id \in Ids : t \in ShareTokensOf(id)}) <= 1

\* C17: the two ledger files always hold the same content, and what a
\* local-mode read returns is taken from ledger A.
C17_LedgersIdentical ==
    /\ ledgerA = ledgerB
    /\ ~enabled => \A id \in Ids : GetProof(id) \subseteq SeqToSet(ledgerA)

\* two proofs in the local ledgers, one of them rewritten by a later write
C17_Witness ==
    /\ ~enabled
    /\ Len(ledgerA) = 2
    /\ \E i \in 1..2 : ledgerA[i].external_check_count > 0 \/ ledgerA[i].share_enabled
    /\ lastOp.op = "cleanup_expired_proofs"

\* the fields of a proof record set at creation
CreationFields(p) ==
    [verification_id |-> p.verification_id, owner_email |-> p.owner_email,
     hash |-> p.hash, signature |-> p.signature, public_key |-> p.public_key,
     status |-> p.status, created_at |-> p.created_at]

\* C18: a record that is stored before and after a step keeps its
\* verification_id, owner, hash, signature, public key, status and creation
\* time; only the
\* share, auto-delete and check-count fields change.
C18_CreationFieldsImmutable ==
    [][\A id \in Ids :
          StoredOf(id) # {} /\ StoredOf(id)' # {}
          => {CreationFields(p) : p \in StoredOf(id)}
               = {CreationFields(p) : p \in StoredOf(id)'}]_vars

\* a shared re-check answered TAMPERED was recorded and the stored proof is
\* still VERIFIED
C18_Witness ==
    /\ lastOp.op = "verify_shared_upload"
    /\ \E id \in Ids :
          /\ \E p \in StoredOf(id) : p.status = "VERIFIED" /\ p.external_check_count > 0
          /\ \E i \in 1..Len(remoteChecks) :
                remoteChecks[i].verification_id = id /\ remoteChecks[i].status = "TAMPERED"

\* C19: every list list_proofs(owner, limit) can return has at most limit
\* records, newest first, all of the owner asked for, and is as long as the
\* matching records allow; with no owner the records of all owners match,
\* and the list endpoint asks for no owner in local mode.
C19_ListProofsNewestFirst ==
    \A o \in OwnerFilters, limit \in 1..MaxProofs :
       \A rows \in ListProofsRows(o, limit) :
          LET matching == {p \in StoredProofs : o = Null \/ p.owner_email = o}
          IN  /\ Len(rows) = Min(limit, Cardinality(matching))
              /\ SeqToSet(rows) \subseteq matching
              /\ Cardinality(SeqToSet(rows)) = Len(rows)
              /\ \A i, j \in 1..Len(rows) : i < j => rows[i].created_at >= rows[j].created_at
              /\ \A p \in matching \ SeqToSet(rows) :
                    \A i \in 1..Len(rows) : rows[i].created_at >= p.created_at
              /\ (~enabled => EndpointOwner(o) = Null)

\* a listing cut to one record while two proofs of different age are stored
C19_Witness ==
    /\ lastOp.op = "list_proofs"
    /\ lastOp.ret = 1
    /\ \E p, q \in StoredProofs : p.created_at < q.created_at

\* C20 (as claimed): verify_hash_with_public_key answers true or false for
\* every signature, hash and transported key, and so does the handlers'
\* verification of a stored signature; neither raises.
C20_VerifyNeverRaises ==
    lastOp.op \in {"verify_hash_with_public_key", "verify_stored_signature"}
    => lastOp.outcome \in {"true", "false"}

C24_DigestIndependentOfChunking ==
    lastOp.op = "generate_hash"
    => /\ Absorbed(lastOp.data, 0, lastOp.chunk_size, <<>>) = lastOp.data
       /\ lastOp.digest = Digest(lastOp.data)
       /\ \A c \in 1..MaxChunk : GenerateHash(lastOp.data, c) = lastOp.digest
       /\ (lastOp.data = <<>> => lastOp.digest = Digest(<<>>))

\* an input hashed in several chunks, the last one shorter
C24_Witness ==
    /\ lastOp.op = "generate_hash"
    /\ Len(lastOp.data) = 3
    /\ lastOp.chunk_size = 2
    /\ lastOp.digest = Digest(lastOp.data)

\* C25: a re-check answers VERIFIED exactly when the stored signature
\* verifies and the submitted file, if any, has the stored digest, and
\* TAMPERED otherwise; the shared re-check records that status.
C25_RecheckOutcome ==
    [][/\ \A sv, fm \in BOOLEAN :
             /\ SharedStatus(sv, fm) = "VERIFIED" <=> sv /\ fm
             /\ OwnerStatus(sv, TRUE, fm) = "VERIFIED" <=> sv /\ fm
             /\ OwnerStatus(sv, FALSE, fm) = "VERIFIED" <=> sv
             /\ {SharedStatus(sv, fm), OwnerStatus(sv, TRUE, fm), OwnerStatus(sv, FALSE, fm)}
                   \subseteq {"VERIFIED", "TAMPERED"}
       /\ \A id \in Ids, o \in Owners, f \in Contents \cup {NoFile} :
             VerifyProof(id, o, f) /\ lastOp'.outcome \notin {"not_found", "forbidden"}
             => \E p \in GetProof(id) :
                   /\ lastOp'.outcome \in {"VERIFIED", "TAMPERED"}
                   /\ lastOp'.outcome = "VERIFIED"
                        <=> /\ VerifyHashWithPublicKey(p.signature, p.hash)
                            /\ f = NoFile \/ Digest(f) = p.hash
       /\ \A t \in Tokens, c \in Contents :
             VerifySharedUpload(t, c) /\ lastOp'.outcome = "ok"
             => \E p \in GetProofByShareToken(t) :
                \E row \in {remoteChecks'[i] : i \in 1..Len(remoteChecks')}
                           \cup {localChecks'[i] : i \in 1..Len(localChecks')} :
                   /\ CheckRecorded(p.verification_id)
                   /\ row.verification_id = p.verification_id
                   /\ row.checker_hash = Digest(c)
                   /\ row.status = "VERIFIED"
                        <=> /\ VerifyHashWithPublicKey(p.signature, p.hash)
                            /\ Digest(c) = p.hash]_vars

\* the owner re-checked with a file that differs and was told TAMPERED
C25_Witness ==
    /\ lastOp.op = "verify_proof"
    /\ lastOp.outcome = "TAMPERED"

\* C26: when a broadcast ends, every registered subscriber was sent to,
\* whether or not an earlier send failed; the subscribers whose send failed
\* are out of the registry and those whose send succeeded are still in it;
\* and nothing is sent to a subscriber whose disconnect has completed.
C26_BroadcastIsolation ==
    [][/\ EndBroadcast
          => /\ SeqToSet(bcast.sent) \cup SeqToSet(bcast.dead) = SeqToSet(connections)
             /\ Len(bcast.sent) + Len(bcast.dead) = Len(connections)
             /\ \A w \in SeqToSet(bcast.dead) : w \notin SeqToSet(connections')
             /\ \A w \in SeqToSet(bcast.sent) : w \in SeqToSet(connections')
       /\ \A failed \in BOOLEAN :
             Send(failed) => <<connections[bcast.index], "disconnect">> \notin gone]_vars

\* a broadcast ended that removed a subscriber whose send failed and kept
\* another, with a third one disconnected before
C26_Witness ==
    /\ lastOp.op = "broadcast done"
    /\ \E w \in Sockets : <<w, "dead">> \in gone /\ <<w, "disconnect">> \notin gone
    /\ connections # <<>>
    /\ \E w \in Sockets : <<w, "disconnect">> \in gone

\* C27: an upload or a shared re-check whose file is empty is rejected and
\* leaves every store, the vault, the warnings, the share links and the
\* broadcast registry as they were.
C27_EmptyFileChangesNothing ==
    [][(\/ \E o \in Owners : Upload(o, EmptyFile)
        \/ \E t \in Tokens : VerifySharedUpload(t, EmptyFile))
       => /\ lastOp'.outcome = "rejected"
          /\ UNCHANGED <<envVars, serviceVars, proofVars, checkVars, notifVars,
                         profileVars, memoryShareLinks, warnVars, now, nextId>>]_vars

\* an empty file was sent to a live share link and was rejected
C27_Witness ==
    /\ lastOp.op = "verify_shared_upload"
    /\ lastOp.outcome = "rejected"
    /\ \E t \in Tokens : GetProofByShareToken(t) # {}

\* the store and everything beside the record of the last operation
StoreUnchanged ==
    UNCHANGED <<envVars, serviceVars, proofVars, checkVars, notifVars, profileVars,
                memoryShareLinks, warnVars, now, nextId>>

\* C28 (as claimed): in both store modes delete, share-link creation and
\* owner verification answer not-found for an unknown verification_id and
\* an authorization error for a proof of another identity, and change
\* nothing in either case.
C28_NotFoundDistinctInBothModes ==
    [][\A id \in Ids, u \in Owners :
          (enabled => u \in Users)
          /\ (\/ DeleteProofHandler(id, u)
              \/ CreateShareLink(id, u)
              \/ \E f \in Contents \cup {NoFile} : VerifyProof(id, u, f))
          => /\ StoredOf(id) = {} => lastOp'.outcome = "not_found" /\ StoreUnchanged
             /\ (\E p \in StoredOf(id) : p.owner_email # u)
                => lastOp'.outcome = "forbidden" /\ StoreUnchanged]_vars

\* C28: with the remote store, for a signed-in caller, the three requests
\* answer not-found for an unknown verification_id and forbidden for a
\* proof of another owner. With the local store nobody is signed in: delete
\* and share-link creation answer unauthenticated for every id, and owner
\* verification answers not-found for an unknown id. Nothing changes in
\* any of these cases.
C28_NotFoundDistinctWhenSignedIn ==
    [][\A id \in Ids, u \in Owners :
          /\ (enabled /\ u \in Users)
             /\ (\/ DeleteProofHandler(id, u)
                 \/ CreateShareLink(id, u)
                 \/ \E f \in Contents \cup {NoFile} : VerifyProof(id, u, f))
             => /\ StoredOf(id) = {} => lastOp'.outcome = "not_found" /\ StoreUnchanged
                /\ (\E p \in StoredOf(id) : p.owner_email # u)
                   => lastOp'.outcome = "forbidden" /\ StoreUnchanged
          /\ ~enabled /\ (DeleteProofHandler(id, u) \/ CreateShareLink(id, u))
             => lastOp'.outcome = "unauthenticated" /\ StoreUnchanged
          /\ ~enabled /\ (\E f \in Contents \cup {NoFile} : VerifyProof(id, u, f))
                      /\ StoredOf(id) = {}
             => lastOp'.outcome = "not_found" /\ StoreUnchanged]_vars

\* a signed-in caller asked to delete a proof of another owner
C28_Witness ==
    /\ lastOp.op = "delete_proof_request"
    /\ lastOp.outcome = "forbidden"
    /\ enabled
    /\ StoredProofs # {}

\* C29 (as claimed): in local mode as in remote mode, the vault blob of
\* every stored proof can be downloaded.
C29_BlobStoredForEveryProof ==
    \A p \in StoredProofs : DownloadVaultBlob(p.verification_id) # {}

\* the AUTO_DELETE_SCHEDULED notifications issued for a proof, remote and
\* in memory
AutoDeleteNotices(verification_id) ==
    {<<"remote", i>> : i \in {j \in 1..Len(remoteNotifs) :
          /\ remoteNotifs[j].verification_id = verification_id
          /\ remoteNotifs[j].event_type = "AUTO_DELETE_SCHEDULED"}}
    \cup {<<"local", i>> : i \in {j \in 1..Len(localNotifs) :
          /\ localNotifs[j].verification_id = verification_id
          /\ localNotifs[j].event_type = "AUTO_DELETE_SCHEDULED"}}

\* C30 (as claimed): in every store mode a proof gets at most one
\* AUTO_DELETE_SCHEDULED notification, and gets it with its first external
\* verification.
C30_AutoDeleteNoticeOnce ==
    \A id \in Ids :
       /\ Cardinality(AutoDeleteNotices(id)) <= 1
       /\ ChecksOf(id) # {} => AutoDeleteNotices(id) # {}

----------------------------------------------------------------------------
\* C31: local-mode ledger writers do not lose updates under any interleaving
\* with the list endpoint's cleanup: when cleanup replaces a ledger file,
\* every record of the file that has not expired is among the records it
\* writes (an inserted proof and its lifecycle patches survive) and every
\* record it writes is in the file (a deleted proof does not come back); and
\* once cleanup has returned, ledgers A and B are identical.
C31_NoLostUpdate ==
    /\ [][WorkerOpen =>
            LET file == IF worker.pc = "openA" THEN ledgerA ELSE ledgerB
            IN  /\ \A p \in SeqToSet(file) \ Expired(SeqToSet(file)) :
                      p \in SeqToSet(worker.kept)
                /\ \A p \in SeqToSet(worker.kept) : p \in SeqToSet(file)]_vars
    /\ [](worker.pc = "idle" => ledgerA = ledgerB)

\* the ledgers a read of file A may show while a mutation is under way: the
\* whole ledger before it or the whole ledger after it
WholeLedgers ==
    IF worker.pc = "writeA" THEN {worker.before, worker.kept} ELSE {ledgerA}

\* C32: ledger rewrites are atomic for readers: a get_proof that runs next to
\* a local-ledger mutation answers from the whole ledger before the mutation
\* or from the whole ledger after it, so a proof is reported missing only if
\* one of those two ledgers does not hold it.
C32_ReadersSeeWholeLedger ==
    [][\A id \in Ids, c \in Contents \cup {NoFile} :
          VerifyProof(id, Anonymous, c) /\ lastOp'.outcome = "not_found"
             => \E whole \in WholeLedgers :
                   \A p \in SeqToSet(whole) : p.verification_id # id]_vars

\* ConnectionManager._lock is taken: by the broadcast between its
\* "async with self._lock" and the end of that block (connect and
\* disconnect take and release it within one step)
LockHeld == bcast.active

\* the broadcast is suspended in "await websocket.send_json(envelope)" for
\* the connection at bcast.index
AwaitingSend == bcast.active /\ bcast.index <= Len(connections)

\* C33: no lock is held across a network suspension point: in no reachable
\* state of ConnectionManager is a task suspended in a network send while
\* the registry lock is taken, so connect and disconnect are never kept
\* waiting by a subscriber's send.
C33_NoLockAcrossSend ==
    /\ ~(AwaitingSend /\ LockHeld)
    /\ AwaitingSend => \E w \in Sockets : ENABLED Connect(w) \/ ENABLED Disconnect(w)

\* the key pair of the active backend is held and the other one is not
ActivePairHeld(e) ==
    /\ e.backend = (IF e.fallback_active THEN "ed25519-fallback" ELSE "liboqs")
    /\ (e.private_key_fallback # NoKey) = e.fallback_active
    /\ (e.public_key_fallback # NoKey) = e.fallback_active
    /\ (e.private_key_oqs # NoKey) = ~e.fallback_active
    /\ (e.public_key_oqs # NoKey) = ~e.fallback_active

\* C34: the signature backend is chosen once: no call changes the engine
\* (fallback_active, the backend name, the keys), the engine holds exactly
\* the active backend's key pair, and sign_hash and export_public_key_b64
\* never raise their missing-key error.
C34_BackendChosenOnce ==
    /\ [][engine' = engine]_vars
    /\ [](ActivePairHeld(engine))
    /\ [](lastOp.op \in {"sign_hash", "export_public_key_b64"} => lastOp.outcome = "ok")

\* sign_hash was called on an engine constructed with liboqs and returned a
\* signature of the primary key
C34_Witness ==
    /\ lastOp.op = "sign_hash"
    /\ lastOp.outcome = "ok"
    /\ ~engine.fallback_active
    /\ lastOp.args[2] = [alg |-> "ML-DSA-65", key |-> engine.private_key_oqs,
                         payload |-> lastOp.args[1]]

\* the stored proofs whose vault blob cannot be downloaded
Orphans == {p.verification_id : p \in {q \in StoredProofs :
                                          DownloadVaultBlob(q.verification_id) = {}}}

\* C35: nothing is rolled back between the steps of an operation, and the
\* only way to a stored record without its vault blob is a stop between the
\* blob step and the record step of delete_proof or of cleanup: no other
\* step, in particular no upload stopped at any point, adds a record whose
\* blob is absent.
C35_OrphansOnlyFromRemovalCrash ==
    [][Orphans' \subseteq Orphans
       \/ lastOp'.op \in {"delete_proof crash", "cleanup crash"}]_vars

\* C36: enable_share_link creates no share mapping for a proof that does not
\* exist or that the caller does not own: such a call returns nothing and
\* leaves the proofs, the ledgers and the in-memory share links unchanged,
\* whether or not the remote share columns exist.
C36_NoShareForUnownedProof ==
    [][\A id \in Ids, o \in Owners, t \in Tokens :
          (/\ EnableShareLink(id, o, t)
           /\ ~\E p \in StoredProofs : p.verification_id = id /\ p.owner_email = o)
             => /\ lastOp'.outcome = "none"
                /\ UNCHANGED <<proofVars, memoryShareLinks>>]_vars

\* a step of one of the endpoints that require an authenticated user
AuthenticatedEndpointStep ==
    \E cr \in Credentials :
       \/ GetMyProfile(cr)
       \/ \E h \in HandleUpdates : UpdateMyProfile(cr, h)
       \/ \E id \in Ids : CreateShareLinkRequest(cr, id) \/ DeleteProofRequest(cr, id)
       \/ ListNotificationsRequest(cr)
       \/ \E n \in 1..MaxChecks : MarkNotificationReadRequest(cr, n)

\* C37: in local-ledger mode every request is unauthenticated whatever its
\* credentials: each endpoint that requires an authenticated user answers
\* 401 and changes nothing; no request removes a proof from the ledger and
\* no share token or share link is ever set.
C37_LocalModeUnauthenticated ==
    /\ [][~enabled /\ AuthenticatedEndpointStep
            => lastOp'.outcome = "unauthenticated" /\ StoreUnchanged]_vars
    /\ [][~enabled => \A p \in SeqToSet(ledgerA) : p \in SeqToSet(ledgerA')]_vars
    /\ [](~enabled => /\ \A p \in StoredProofs : p.share_token = NoToken /\ ~p.share_enabled
                      /\ memoryShareLinks = {})

\* local mode, a proof is stored, and a delete request carrying a user's
\* token was answered 401
C37_Witness ==
    /\ ~enabled
    /\ ledgerA # <<>>
    /\ lastOp.op = "delete request"
    /\ lastOp.outcome = "unauthenticated"
    /\ lastOp.credentials = AliceToken

\* the lifecycle fields of the stored record of a verification_id
LifecycleOf(verification_id) ==
    {<<p.external_check_count, p.auto_delete_at>> : p \in StoredOf(verification_id)}

\* C38: owner verification is read-only: verify_proof, with or without a
\* file and whatever it answers, leaves the proofs, both ledgers, the blobs,
\* the check history and the notifications unchanged; external_check_count
\* and auto_delete_at of a stored proof change only in a step of
\* verify_shared_upload.
C38_OwnerVerifyReadOnly ==
    /\ [][\A id \in Ids, o \in Owners, c \in Contents \cup {NoFile} :
             VerifyProof(id, o, c) => UNCHANGED <<proofVars, checkVars, notifVars>>]_vars
    /\ [][\A id \in Ids :
             (/\ StoredOf(id) # {}
              /\ StoredOf(id)' # {}
              /\ LifecycleOf(id)' # LifecycleOf(id))
                => lastOp'.op = "verify_shared_upload"]_vars

\* a proof that was checked through its share link is re-verified by its
\* owner with a file that does not match
C38_Witness ==
    /\ lastOp.op = "verify_proof"
    /\ lastOp.outcome = "TAMPERED"
    /\ \E p \in StoredProofs : p.external_check_count > 0 /\ p.auto_delete_at # NoTime

====
